---- MODULE Spec2Model ----
(***************************************************************************)
(* Model of the just_gtfs CSV engine (include/just_gtfs/just_gtfs.h):      *)
(* CsvParser::split_record / read_header / read_row, the row mappers       *)
(* Feed::add_<entity>(ParsedCsvRow), Feed::parse_csv and Feed::read_feed.  *)
(*                                                                         *)
(* A std::string is a sequence of symbols.  The bytes the code tests for   *)
(* (space, comma, double quote, CR, TAB, the three BOM bytes, digits, the  *)
(* sign, the dot and the colon) are one symbol each; any other symbol      *)
(* (for instance "route_id" or "x") stands for a run of ordinary bytes     *)
(* that no test of the code distinguishes.                                 *)
(***************************************************************************)
EXTENDS Integers, Sequences, FiniteSets, TLC

VARIABLES
  line,        \* split_record: the argument `record`
  is_header,   \* split_record: the argument `is_header`
  fields,      \* split_record: the returned vector
  split_pc,    \* "call" before split_record ran, "done" after
  dir,         \* the feed directory: does it exist, data lines per table file
  feed,        \* Feed: the tables, each a sequence of entities
  call,        \* the running call: "none", "read_table" or "read_feed"
  cur,         \* the table whose parse_csv is running
  pc,          \* "idle", "open", "rows", "returned", "thrown", "crashed"
  header_line, \* read_header: the string `header`, the file's first line
  field_sequence,  \* CsvParser::field_sequence
  record,      \* parse_csv: the ParsedCsvRow `record`
  result,      \* the Result code the call returned ("none" before)
  consumed,    \* history: the data lines parse_csv has read from cur's file
  read_log,    \* history: the parse_csv calls finished, with their results
  adds,        \* history: the tables of the add_<entity>(entity) calls made
  args,        \* the arguments of the Time or Date constructor called
  thrown,      \* the exception that constructor threw ("none" otherwise)
  time,        \* the Time constructed
  time_before, \* history: the Time before the last limit_hours_to_24max
  limit_returned,  \* history: what the limit_hours_to_24max calls returned
  date,        \* the Date constructed
  date_again,  \* Date(date.get_raw_date()): [exc, date], or <<>> before
  val_pc,      \* "idle", "new", "time", "date", "thrown"
  std_sort_stable,  \* does std::sort of this build keep equal elements in order
  query,       \* the last get_ call since the Feed was modified, or <<>>
  answer       \* what that call returned: a sequence of records

tokvars == <<line, is_header, fields, split_pc>>

readvars ==
  <<dir, feed, call, cur, pc, header_line, field_sequence, record, result,
    consumed, read_log, adds>>

valvars ==
  <<args, thrown, time, time_before, limit_returned, date, date_again, val_pc>>

storevars == <<std_sort_stable, query, answer>>

vars == <<tokvars, readvars, valvars, storevars>>

-----------------------------------------------------------------------------
(* Characters *)

SP == " "
COMMA == ","
QUOTE == "\""
CR == "\r"
TAB == "\t"
BOM1 == "EF"
BOM2 == "BB"
BOM3 == "BF"

delimiter == COMMA

delims == {CR, TAB}

BOM == <<BOM1, BOM2, BOM3>>

-----------------------------------------------------------------------------
(* Bounds *)

MaxLineLen == 5

\* Data lines per table file.
MaxRows == 3

\* add_<entity>(entity) calls made before a table is read.
MaxAdds == 1

\* Lines per table file that are not the well-formed row.
MaxOdd == 1

\* The limit_hours_to_24max calls made on one Time.
MaxLimitCalls == 2

\* Records in the table the add_ and get_ calls address.
MaxStored == 3

\* The tables of at most this many columns are mapped from every mapping
\* over their columns.
MaxColumns == 5

\* The data lines of a file that one read_<table>() call of a behaviour
\* with get_ calls reads.
MaxFileRows == 1

-----------------------------------------------------------------------------
(* CsvParser::split_record *)

\* Mutant: the token is pushed without trimming.
trim_spaces_untrimmed(token) == token

RECURSIVE trim_spaces(_)
trim_spaces(token) ==
  IF token # <<>> /\ token[Len(token)] = SP
    THEN trim_spaces(SubSeq(token, 1, Len(token) - 1))
    ELSE token

\* Mutant: the BOM is skipped on data lines too.
start_index_any_line(rcd, header) ==
  IF Len(rcd) > 2
     /\ rcd[1] = BOM1 /\ rcd[2] = BOM2 /\ rcd[3] = BOM3
    THEN 3
    ELSE 0

\* The start index after the optional BOM skip (0-based, as in the code).
start_index_of(rcd, header) ==
  IF header /\ Len(rcd) > 2
     /\ rcd[1] = BOM1 /\ rcd[2] = BOM2 /\ rcd[3] = BOM3
    THEN 3
    ELSE 0

\* Mutant: every comma separates, quoted or not.
delimiter_always_splits(is_inside_quotes) == TRUE

\* `if (is_inside_quotes)` under `rcd[i] == delimiter`: a comma separates
\* fields only outside quotes.
delimiter_splits(is_inside_quotes) == ~is_inside_quotes

\* Mutant: no space is skipped.
space_never_leading(token_start_index, i) == FALSE

\* `if (token_start_index == i)` under `rcd[i] == ' '`: the space is
\* skipped and the token start moves on.
space_is_leading(token_start_index, i) == token_start_index = i

\* One evaluation of the for loop from index i (0-based) on.
RECURSIVE split_loop(_, _, _, _, _, _)
split_loop(rcd, i, token, flds, token_start_index, is_inside_quotes) ==
  IF i >= Len(rcd)
    THEN Append(flds, trim_spaces(token))
    ELSE
      LET c == rcd[i + 1] IN
      IF c = QUOTE
        THEN split_loop(rcd, i + 1, token, flds, token_start_index,
                        ~is_inside_quotes)
      ELSE IF c = SP
        THEN IF space_is_leading(token_start_index, i)
               THEN split_loop(rcd, i + 1, token, flds, i + 1,
                               is_inside_quotes)
               ELSE split_loop(rcd, i + 1, Append(token, c), flds,
                               token_start_index, is_inside_quotes)
      ELSE IF c = delimiter
        THEN IF ~delimiter_splits(is_inside_quotes)
               THEN split_loop(rcd, i + 1, Append(token, c), flds,
                               token_start_index, is_inside_quotes)
               ELSE split_loop(rcd, i + 1, <<>>,
                               Append(flds, trim_spaces(token)), i + 1,
                               is_inside_quotes)
      ELSE IF c \notin delims
        THEN split_loop(rcd, i + 1, Append(token, c), flds,
                        token_start_index, is_inside_quotes)
        ELSE split_loop(rcd, i + 1, token, flds, token_start_index,
                        is_inside_quotes)

split_record(rcd, header) ==
  LET start_index == start_index_of(rcd, header) IN
  split_loop(rcd, start_index, <<>>, <<>>, start_index, FALSE)

-----------------------------------------------------------------------------
(* Strings and the standard conversions the mappers call *)

\* A C++ string literal such as "route_id": one symbol.
Str(name) == <<name>>

Digits == {"0", "1", "2", "3", "4", "5", "6", "7", "8", "9"}

DigitVal(c) ==
  CASE c = "0" -> 0 [] c = "1" -> 1 [] c = "2" -> 2 [] c = "3" -> 3
    [] c = "4" -> 4 [] c = "5" -> 5 [] c = "6" -> 6 [] c = "7" -> 7
    [] c = "8" -> 8 [] c = "9" -> 9

\* std::numeric_limits<int>: std::stoi throws out_of_range beyond them.
INT_MAX == 2147483647
INT_MIN == (-INT_MAX) - 1

\* Leading white space, skipped by strtol / strtod.
RECURSIVE SkipSpace(_)
SkipSpace(str) ==
  IF str # <<>> /\ Head(str) \in {SP, TAB, CR} THEN SkipSpace(Tail(str))
  ELSE str

\* The leading digit run of str, accumulated as a non-positive number so
\* that INT_MIN is reachable; "overflow" once the number leaves int.
RECURSIVE DigitRun(_, _, _)
DigitRun(str, acc, n) ==
  IF str = <<>> \/ Head(str) \notin Digits
    THEN [acc |-> acc, n |-> n, rest |-> str, overflow |-> FALSE]
    ELSE
      LET d == DigitVal(Head(str))
          m == INT_MIN + d
          q == m \div 10
          r == m % 10
      IN IF acc < q \/ (acc = q /\ r > 0)
           THEN [acc |-> acc, n |-> n + 1, rest |-> Tail(str), overflow |-> TRUE]
           ELSE DigitRun(Tail(str), acc * 10 - d, n + 1)

\* std::stoi(str): [exc, val].
stoi(str) ==
  LET s1 == SkipSpace(str)
      neg == s1 # <<>> /\ Head(s1) = "-"
      s2 == IF s1 # <<>> /\ Head(s1) \in {"-", "+"} THEN Tail(s1) ELSE s1
      run == DigitRun(s2, 0, 0)
  IN IF run.n = 0 THEN [exc |-> "invalid_argument", val |-> 0]
     ELSE IF run.overflow \/ (~neg /\ run.acc = INT_MIN)
       THEN [exc |-> "out_of_range", val |-> 0]
     ELSE [exc |-> "none", val |-> IF neg THEN run.acc ELSE -run.acc]

\* Up to three fraction digits of str, as thousandths.
FractionMilli(str) ==
  LET d(i) == IF Len(str) >= i /\ str[i] \in Digits
                 /\ (\A j \in 1..i : str[j] \in Digits)
                THEN DigitVal(str[i]) ELSE 0
  IN 100 * d(1) + 10 * d(2) + d(3)

\* std::stod(str) on plain decimal notation [sign] digits [. digits], the
\* value in thousandths (a double of the modelled inputs has at most three
\* fraction digits and an int-sized integer part): [exc, val].
stod(str) ==
  LET s1 == SkipSpace(str)
      neg == s1 # <<>> /\ Head(s1) = "-"
      s2 == IF s1 # <<>> /\ Head(s1) \in {"-", "+"} THEN Tail(s1) ELSE s1
      run == DigitRun(s2, 0, 0)
      hasdot == run.rest # <<>> /\ Head(run.rest) = "."
      frac == IF hasdot THEN Tail(run.rest) ELSE <<>>
      fracn == IF frac # <<>> /\ Head(frac) \in Digits THEN 1 ELSE 0
      milli == (-run.acc) * 1000 + FractionMilli(frac)
  IN IF run.n + fracn = 0 THEN [exc |-> "invalid_argument", val |-> 0]
     ELSE [exc |-> "none", val |-> IF neg THEN -milli ELSE milli]

\* static_cast<uint16_t>(int)
uint16(v) == v % 65536

\* static_cast<size_t>(int) / the implicit int -> size_t conversion: the
\* value is wrap * 2^64 + off, so a negative int becomes 2^64 + off.
size_t_of(v) == [wrap |-> IF v < 0 THEN 1 ELSE 0, off |-> v]

\* std::to_string of a non-negative number
RECURSIVE to_string(_)
to_string(n) ==
  LET dig == CHOOSE c \in Digits : DigitVal(c) = n % 10 IN
  IF n < 10 THEN <<dig>> ELSE Append(to_string(n \div 10), dig)

-----------------------------------------------------------------------------
(* Time and Date *)

\* Mutant: no zero is prepended.
append_leading_zero_never(str, check) ==
  IF check /\ Len(str) > 2 THEN [exc |-> "InvalidFieldFormat", str |-> str]
  ELSE [exc |-> "none", str |-> str]

\* append_leading_zero: [exc, str]
append_leading_zero(str, check) ==
  IF check /\ Len(str) > 2 THEN [exc |-> "InvalidFieldFormat", str |-> str]
  ELSE IF Len(str) = 2 THEN [exc |-> "none", str |-> str]
  ELSE [exc |-> "none", str |-> <<"0">> \o str]

\* Time::Time(): the default-constructed Time
TimeDefault ==
  [time_is_provided |-> FALSE, raw_time |-> <<>>, total_seconds |-> 0,
   hh |-> 0, mm |-> 0, ss |-> 0]

\* Mutant: the seconds are left out of the total.
set_total_seconds_without_ss(t) ==
  [t EXCEPT !.total_seconds = t.hh * 60 * 60 + t.mm * 60]

\* Time::set_total_seconds
set_total_seconds(t) ==
  [t EXCEPT !.total_seconds = t.hh * 60 * 60 + t.mm * 60 + t.ss]

\* Mutant: the hours are written without a leading zero.
set_raw_time_bare_hours(t) ==
  [exc |-> "none",
   time |-> [t EXCEPT !.raw_time =
               to_string(t.hh) \o <<":">>
                 \o append_leading_zero(to_string(t.mm), FALSE).str \o <<":">>
                 \o append_leading_zero(to_string(t.ss), FALSE).str]]

\* Time::set_raw_time: [exc, time]
set_raw_time(t) ==
  LET hh_str == append_leading_zero(to_string(t.hh), FALSE)
      mm_str == append_leading_zero(to_string(t.mm), TRUE)
      ss_str == append_leading_zero(to_string(t.ss), TRUE)
  IN IF mm_str.exc # "none" \/ ss_str.exc # "none"
       THEN [exc |-> "InvalidFieldFormat", time |-> t]
       ELSE [exc |-> "none",
             time |-> [t EXCEPT !.raw_time =
                         hh_str.str \o <<":">> \o mm_str.str \o <<":">>
                           \o ss_str.str]]

\* Mutant: the constructors accept any minutes and seconds.
TimeOutOfRangeNever(t) == FALSE

\* The range test of both Time constructors.
TimeOutOfRange(t) == t.mm > 60 \/ t.ss > 60

\* Time::Time(const std::string &): [exc, time]
TimeFromString(raw_time_str) ==
  LET t0 == [TimeDefault EXCEPT !.raw_time = raw_time_str]
      len == Len(raw_time_str)
  IN IF raw_time_str = <<>> THEN [exc |-> "none", time |-> t0]
     ELSE IF ~(len = 7 \/ len = 8)
             \/ (raw_time_str[len - 3 + 1] # ":"
                 /\ raw_time_str[len - 6 + 1] # ":")
       THEN [exc |-> "InvalidFieldFormat", time |-> t0]
     ELSE
       LET h == stoi(SubSeq(raw_time_str, 1, len - 6))
           m == stoi(SubSeq(raw_time_str, len - 5 + 1, len - 5 + 2))
           s == stoi(SubSeq(raw_time_str, len - 2 + 1, len))
       IN IF h.exc # "none" THEN [exc |-> h.exc, time |-> t0]
          ELSE IF m.exc # "none" THEN [exc |-> m.exc, time |-> t0]
          ELSE IF s.exc # "none" THEN [exc |-> s.exc, time |-> t0]
          ELSE
            LET t1 == [t0 EXCEPT !.hh = uint16(h.val), !.mm = uint16(m.val),
                                 !.ss = uint16(s.val)]
            IN IF TimeOutOfRange(t1)
                 THEN [exc |-> "InvalidFieldFormat", time |-> t1]
                 ELSE [exc |-> "none",
                       time |-> [set_total_seconds(t1)
                                   EXCEPT !.time_is_provided = TRUE]]

\* Time::Time(uint16_t, uint16_t, uint16_t): [exc, time]
TimeFromInts(hours, minutes, seconds) ==
  LET t1 == [TimeDefault EXCEPT !.hh = hours, !.mm = minutes, !.ss = seconds]
  IN IF TimeOutOfRange(t1)
       THEN [exc |-> "InvalidFieldFormat", time |-> t1]
       ELSE LET r == set_raw_time(set_total_seconds(t1))
            IN IF r.exc # "none" THEN r
               ELSE [exc |-> "none",
                     time |-> [r.time EXCEPT !.time_is_provided = TRUE]]

\* Mutant: the hours are reduced and the raw text is left as it was.
limit_hours_keeps_raw_time(t) ==
  IF t.hh < 24 THEN [ret |-> FALSE, time |-> t]
  ELSE [ret |-> TRUE, time |-> set_total_seconds([t EXCEPT !.hh = t.hh % 24])]

\* Time::limit_hours_to_24max: [ret, time]
limit_hours_to_24max(t) ==
  IF t.hh < 24 THEN [ret |-> FALSE, time |-> t]
  ELSE [ret |-> TRUE,
        time |-> set_raw_time(
                   set_total_seconds([t EXCEPT !.hh = t.hh % 24])).time]

\* Date::Date(): the default-constructed Date
DateDefault ==
  [date_is_provided |-> FALSE, raw_date |-> <<>>, yyyy |-> 0, mm |-> 0,
   dd |-> 0]

\* Mutant: every fourth year is a leap year.
check_valid_every_fourth_year(d) ==
  /\ ~(d.yyyy < 1000 \/ d.yyyy > 9999 \/ d.mm < 1 \/ d.mm > 12 \/ d.dd < 1
       \/ d.dd > 31)
  /\ (d.mm = 2 /\ d.dd > 28) => (d.yyyy % 4 = 0 /\ ~(d.dd > 29))
  /\ ~(d.dd > 30 /\ (d.mm = 4 \/ d.mm = 6 \/ d.mm = 9 \/ d.mm = 11))

\* Date::check_valid: TRUE when it does not throw
check_valid(d) ==
  /\ ~(d.yyyy < 1000 \/ d.yyyy > 9999 \/ d.mm < 1 \/ d.mm > 12 \/ d.dd < 1
       \/ d.dd > 31)
  /\ (d.mm = 2 /\ d.dd > 28) =>
       /\ ~(d.yyyy % 4 # 0 \/ (d.yyyy % 100 = 0 /\ d.yyyy % 400 # 0))
       /\ ~(d.dd > 29)
  /\ ~(d.dd > 30 /\ (d.mm = 4 \/ d.mm = 6 \/ d.mm = 9 \/ d.mm = 11))

\* operator==(const Date &, const Date &)
DateEqual(lhs, rhs) ==
  /\ <<lhs.yyyy, lhs.mm, lhs.dd>> = <<rhs.yyyy, rhs.mm, rhs.dd>>
  /\ lhs.date_is_provided = rhs.date_is_provided

\* Date::Date(uint16_t, uint16_t, uint16_t): [exc, date]
DateFromInts(year, month, day) ==
  LET d1 == [DateDefault EXCEPT !.yyyy = year, !.mm = month, !.dd = day]
  IN IF ~check_valid(d1) THEN [exc |-> "InvalidFieldFormat", date |-> d1]
     ELSE
       LET mm_str == append_leading_zero(to_string(d1.mm), TRUE)
           dd_str == append_leading_zero(to_string(d1.dd), TRUE)
       IN [exc |-> "none",
           date |-> [d1 EXCEPT !.raw_date =
                                 to_string(d1.yyyy) \o mm_str.str \o dd_str.str,
                               !.date_is_provided = TRUE]]

\* Date::Date(const std::string &): [exc, date]
DateFromString(raw_date_str) ==
  LET d0 == [DateDefault EXCEPT !.raw_date = raw_date_str]
  IN IF raw_date_str = <<>> THEN [exc |-> "none", date |-> d0]
     ELSE IF Len(raw_date_str) # 8
       THEN [exc |-> "InvalidFieldFormat", date |-> d0]
     ELSE
       LET y == stoi(SubSeq(raw_date_str, 1, 4))
           m == stoi(SubSeq(raw_date_str, 5, 6))
           d == stoi(SubSeq(raw_date_str, 7, 8))
       IN IF y.exc # "none" THEN [exc |-> y.exc, date |-> d0]
          ELSE IF m.exc # "none" THEN [exc |-> m.exc, date |-> d0]
          ELSE IF d.exc # "none" THEN [exc |-> d.exc, date |-> d0]
          ELSE
            LET d1 == [d0 EXCEPT !.yyyy = uint16(y.val), !.mm = uint16(m.val),
                                 !.dd = uint16(d.val)]
            IN IF ~check_valid(d1)
                 THEN [exc |-> "InvalidFieldFormat", date |-> d1]
                 ELSE [exc |-> "none",
                       date |-> [d1 EXCEPT !.date_is_provided = TRUE]]

-----------------------------------------------------------------------------
(* Row mappers: Feed::add_<entity>(ParsedCsvRow const &)                   *)
(*                                                                         *)
(* A ParsedCsvRow is a function from keys to values.  A mapper is written  *)
(* as its sequence of blocks; a block is a try block with the exception    *)
(* types its handlers catch, or a run of statements outside any try.  A    *)
(* statement is [op, field, key, is_optional, T].                          *)

OK == "OK"
END_OF_FILE == "END_OF_FILE"
ERROR_INVALID_GTFS_PATH == "ERROR_INVALID_GTFS_PATH"
ERROR_FILE_ABSENT == "ERROR_FILE_ABSENT"
ERROR_REQUIRED_FIELD_ABSENT == "ERROR_REQUIRED_FIELD_ABSENT"
ERROR_INVALID_FIELD_FORMAT == "ERROR_INVALID_FIELD_FORMAT"

get_value_or_default(container, key) ==
  IF key \notin DOMAIN container THEN <<>> ELSE container[key]

\* static_cast<T>(int)
cast(T, v) == IF T = "size_t" THEN size_t_of(v) ELSE v

\* Statements
At(field, key) ==                    \* field = row.at(key)
  [op |-> "at", field |-> field, key |-> key, is_optional |-> FALSE, T |-> "string"]
StoiAt(field, key) ==                \* field = std::stoi(row.at(key))
  [op |-> "stoi_at", field |-> field, key |-> key, is_optional |-> FALSE, T |-> "size_t"]
StodAt(field, key) ==                \* field = std::stod(row.at(key))
  [op |-> "stod_at", field |-> field, key |-> key, is_optional |-> FALSE, T |-> "double"]
TimeAt(field, key) ==                \* field = Time(row.at(key))
  [op |-> "time_at", field |-> field, key |-> key, is_optional |-> FALSE, T |-> "Time"]
DateAt(field, key) ==                \* field = Date(row.at(key))
  [op |-> "date_at", field |-> field, key |-> key, is_optional |-> FALSE, T |-> "Date"]
SetField(field, key, is_optional, T) ==   \* set_field(field, row, key, is_optional)
  [op |-> "set_field", field |-> field, key |-> key, is_optional |-> is_optional, T |-> T]
SetFractional(field, key) ==         \* set_fractional(field, row, key)
  [op |-> "set_fractional", field |-> field, key |-> key, is_optional |-> TRUE, T |-> "double"]
Default(field, key) ==               \* field = get_value_or_default(row, key)
  [op |-> "default", field |-> field, key |-> key, is_optional |-> TRUE, T |-> "string"]
CheckCoordinates(lat, lon) ==        \* check_coordinates(lat, lon)
  [op |-> "check_coordinates", field |-> lat, key |-> lon, is_optional |-> FALSE, T |-> "double"]
CheckDist(field) ==                  \* if (field < 0.0) throw std::invalid_argument
  [op |-> "check_dist", field |-> field, key |-> field, is_optional |-> FALSE, T |-> "double"]
CoordinatesPresent(lon, lat) ==      \* if (!set_lon || !set_lat) coordinates_present = false
  [op |-> "coordinates_present", field |-> lon, key |-> lat, is_optional |-> TRUE, T |-> "bool"]
\* Mutant: add_route accepts a row without any name.
NamesOptional(short, long) ==
  [op |-> "default", field |-> short, key |-> short, is_optional |-> TRUE, T |-> "string"]

NamesRequired(short, long) ==        \* if both are empty return ERROR_REQUIRED_FIELD_ABSENT
  [op |-> "names_required", field |-> short, key |-> long, is_optional |-> FALSE, T |-> "string"]

\* set_field: the conversion std::stoi(key_str) of the value found, or of ""
set_field_stoi(container, key, is_optional) ==
  stoi(get_value_or_default(container, Str(key)))

\* One statement on the row `row` and the entity under construction `rec`:
\* [exc, rec], exc the exception it throws ("return" for the early return
\* of add_route).
Exec(st, row, rec) ==
  LET key == Str(st.key)
      present == key \in DOMAIN row
      val == get_value_or_default(row, key)
      absent == [exc |-> "out_of_range", rec |-> rec]
      set(v) == [exc |-> "none", rec |-> [rec EXCEPT ![st.field] = v]]
      throw(e) == [exc |-> e, rec |-> rec]
  IN
  CASE st.op = "at" -> IF ~present THEN absent ELSE set(val)
    [] st.op = "stoi_at" ->
         IF ~present THEN absent
         ELSE LET r == stoi(val) IN
              IF r.exc # "none" THEN throw(r.exc) ELSE set(cast(st.T, r.val))
    [] st.op = "stod_at" ->
         IF ~present THEN absent
         ELSE LET r == stod(val) IN
              IF r.exc # "none" THEN throw(r.exc) ELSE set(r.val)
    [] st.op = "time_at" ->
         IF ~present THEN absent
         ELSE LET r == TimeFromString(val) IN
              IF r.exc # "none" THEN throw(r.exc) ELSE set(r.time)
    [] st.op = "date_at" ->
         IF ~present THEN absent
         ELSE LET r == DateFromString(val) IN
              IF r.exc # "none" THEN throw(r.exc) ELSE set(r.date)
    [] st.op = "set_field" ->
         IF val # <<>> \/ ~st.is_optional
           THEN LET r == set_field_stoi(row, st.key, st.is_optional) IN
                IF r.exc # "none" THEN throw(r.exc) ELSE set(cast(st.T, r.val))
           ELSE [exc |-> "none", rec |-> rec]
    [] st.op = "set_fractional" ->
         IF val # <<>> \/ ~st.is_optional
           THEN LET r == stod(val) IN
                IF r.exc # "none" THEN throw(r.exc) ELSE set(r.val)
           ELSE [exc |-> "none", rec |-> rec]
    [] st.op = "default" -> set(val)
    [] st.op = "check_coordinates" ->
         IF rec[st.field] < -90000 \/ rec[st.field] > 90000
              \/ rec[st.key] < -180000 \/ rec[st.key] > 180000
           THEN throw("out_of_range")
           ELSE [exc |-> "none", rec |-> rec]
    [] st.op = "check_dist" ->
         IF rec[st.field] < 0 THEN throw("invalid_argument")
         ELSE [exc |-> "none", rec |-> rec]
    [] st.op = "coordinates_present" ->
         IF get_value_or_default(row, Str(st.field)) = <<>>
              \/ get_value_or_default(row, Str(st.key)) = <<>>
           THEN [exc |-> "none", rec |-> [rec EXCEPT !.coordinates_present = FALSE]]
           ELSE [exc |-> "none", rec |-> rec]
    [] st.op = "names_required" ->
         IF rec[st.field] = <<>> /\ rec[st.key] = <<>>
           THEN throw("return") ELSE [exc |-> "none", rec |-> rec]

RECURSIVE RunStatements(_, _, _)
RunStatements(sts, row, rec) ==
  LET next(r) ==
        IF r.exc # "none" THEN r ELSE RunStatements(Tail(sts), row, r.rec)
  IN IF sts = <<>> THEN [exc |-> "none", rec |-> rec]
     ELSE next(Exec(Head(sts), row, rec))

\* The Result code a handler returns for the exception it catches.
CatchCode(exc) ==
  CASE exc = "out_of_range" -> ERROR_REQUIRED_FIELD_ABSENT
    [] exc = "invalid_argument" -> ERROR_INVALID_FIELD_FORMAT
    [] exc = "InvalidFieldFormat" -> ERROR_INVALID_FIELD_FORMAT
    [] exc = "return" -> ERROR_REQUIRED_FIELD_ABSENT

Try(catches, sts) == [catches |-> catches \cup {"return"}, sts |-> sts]
NoTry(sts) == [catches |-> {"return"}, sts |-> sts]

StdCatches == {"out_of_range", "invalid_argument"}
AllCatches == {"out_of_range", "invalid_argument", "InvalidFieldFormat"}

\* The body of a mapper up to its push_back: [code, exc, rec]; code is
\* "THROWN" and exc the exception when no handler catches it.
RECURSIVE RunBlocks(_, _, _)
RunBlocks(blocks, row, rec) ==
  LET after(r) ==
        IF r.exc = "none" THEN RunBlocks(Tail(blocks), row, r.rec)
        ELSE IF r.exc \in Head(blocks).catches
          THEN [code |-> CatchCode(r.exc), exc |-> "none", rec |-> rec]
          ELSE [code |-> "THROWN", exc |-> r.exc, rec |-> rec]
  IN IF blocks = <<>> THEN [code |-> OK, exc |-> "none", rec |-> rec]
     ELSE after(RunStatements(Head(blocks).sts, row, rec))

-----------------------------------------------------------------------------
(* The ten mappers *)

add_agency ==
  << NoTry(<< Default("agency_id", "agency_id") >>),
     Try({"out_of_range"},
         << At("agency_name", "agency_name"),
            At("agency_url", "agency_url"),
            At("agency_timezone", "agency_timezone") >>),
     NoTry(<< Default("agency_lang", "agency_lang"),
              Default("agency_phone", "agency_phone"),
              Default("agency_fare_url", "agency_fare_url"),
              Default("agency_email", "agency_email") >>) >>

add_route ==
  << Try(StdCatches,
         << At("route_id", "route_id"),
            SetField("route_type", "route_type", FALSE, "RouteType"),
            SetField("route_sort_order", "route_sort_order", TRUE, "size_t") >>),
     NoTry(<< Default("agency_id", "agency_id"),
              Default("route_short_name", "route_short_name"),
              Default("route_long_name", "route_long_name"),
              NamesRequired("route_short_name", "route_long_name"),
              Default("route_color", "route_color"),
              Default("route_text_color", "route_text_color"),
              Default("route_desc", "route_desc"),
              Default("route_url", "route_url") >>) >>

add_shape ==
  << Try(StdCatches,
         << At("shape_id", "shape_id"),
            StoiAt("shape_pt_sequence", "shape_pt_sequence"),
            StodAt("shape_pt_lon", "shape_pt_lon"),
            StodAt("shape_pt_lat", "shape_pt_lat"),
            CheckCoordinates("shape_pt_lat", "shape_pt_lon"),
            SetFractional("shape_dist_traveled", "shape_dist_traveled"),
            CheckDist("shape_dist_traveled") >>) >>

add_trip ==
  << Try(StdCatches,
         << At("route_id", "route_id"),
            At("service_id", "service_id"),
            At("trip_id", "trip_id"),
            SetField("direction_id", "direction_id", TRUE, "TripDirectionId"),
            SetField("wheelchair_accessible", "wheelchair_accessible", TRUE, "TripAccess"),
            SetField("bikes_allowed", "bikes_allowed", TRUE, "TripAccess") >>),
     NoTry(<< Default("shape_id", "shape_id"),
              Default("trip_headsign", "trip_headsign"),
              Default("trip_short_name", "trip_short_name"),
              Default("block_id", "block_id") >>) >>

add_stop ==
  << Try(StdCatches,
         << At("stop_id", "stop_id"),
            SetFractional("stop_lon", "stop_lon"),
            SetFractional("stop_lat", "stop_lat"),
            CoordinatesPresent("stop_lon", "stop_lat") >>),
     NoTry(<< Default("stop_name", "stop_name"),
              Default("parent_station", "parent_station"),
              Default("zone_id", "zone_id"),
              Default("stop_code", "stop_code"),
              Default("stop_desc", "stop_desc"),
              Default("stop_url", "stop_url"),
              SetField("location_type", "location_type", TRUE, "StopLocationType"),
              Default("stop_timezone", "stop_timezone"),
              Default("wheelchair_boarding", "wheelchair_boarding"),
              Default("level_id", "level_id"),
              Default("platform_code", "platform_code") >>) >>

add_stop_time ==
  << Try(AllCatches,
         << At("trip_id", "trip_id"),
            At("stop_id", "stop_id"),
            StoiAt("stop_sequence", "stop_sequence"),
            TimeAt("departure_time", "departure_time"),
            TimeAt("arrival_time", "arrival_time"),
            SetField("pickup_type", "pickup_type", TRUE, "StopTimeBoarding"),
            SetField("drop_off_type", "drop_off_type", TRUE, "StopTimeBoarding"),
            SetFractional("shape_dist_traveled", "shape_dist_traveled"),
            CheckDist("shape_dist_traveled"),
            SetField("timepoint", "timepoint", TRUE, "StopTimePoint") >>),
     NoTry(<< Default("stop_headsign", "stop_headsign") >>) >>

add_calendar_item ==
  << Try(AllCatches,
         << At("service_id", "service_id"),
            SetField("monday", "monday", FALSE, "CalendarAvailability"),
            SetField("tuesday", "tuesday", FALSE, "CalendarAvailability"),
            SetField("wednesday", "wednesday", FALSE, "CalendarAvailability"),
            SetField("thursday", "thursday", FALSE, "CalendarAvailability"),
            SetField("friday", "friday", FALSE, "CalendarAvailability"),
            SetField("saturday", "saturday", FALSE, "CalendarAvailability"),
            SetField("sunday", "sunday", FALSE, "CalendarAvailability"),
            DateAt("start_date", "start_date"),
            DateAt("end_date", "end_date") >>) >>

add_calendar_date ==
  << Try(AllCatches,
         << At("service_id", "service_id"),
            SetField("exception_type", "exception_type", FALSE, "CalendarDateException"),
            DateAt("date", "date") >>) >>

add_transfer ==
  << Try(AllCatches,
         << At("from_stop_id", "from_stop_id"),
            At("to_stop_id", "to_stop_id"),
            SetField("transfer_type", "transfer_type", FALSE, "TransferType"),
            SetField("min_transfer_time", "min_transfer_time", TRUE, "size_t") >>) >>

add_frequency ==
  << Try(AllCatches,
         << At("trip_id", "trip_id"),
            TimeAt("start_time", "start_time"),
            TimeAt("end_time", "end_time"),
            SetField("headway_secs", "headway_secs", FALSE, "size_t"),
            SetField("exact_times", "exact_times", TRUE, "FrequencyTripService") >>) >>

\* The default-constructed entity of each struct.
Z == size_t_of(0)
E == <<>>

Agency ==
  [agency_id |-> E, agency_name |-> E, agency_url |-> E, agency_timezone |-> E,
   agency_lang |-> E, agency_phone |-> E, agency_fare_url |-> E,
   agency_email |-> E]

Stop ==
  [stop_id |-> E, stop_name |-> E, coordinates_present |-> TRUE,
   stop_lat |-> 0, stop_lon |-> 0, zone_id |-> E, parent_station |-> E,
   stop_code |-> E, stop_desc |-> E, stop_url |-> E, location_type |-> 3,
   stop_timezone |-> E, wheelchair_boarding |-> E, level_id |-> E,
   platform_code |-> E]

Route ==
  [route_id |-> E, route_type |-> 0, agency_id |-> E, route_short_name |-> E,
   route_long_name |-> E, route_desc |-> E, route_url |-> E,
   route_color |-> E, route_text_color |-> E, route_sort_order |-> Z]

Trip ==
  [route_id |-> E, service_id |-> E, trip_id |-> E, trip_headsign |-> E,
   trip_short_name |-> E, direction_id |-> 0, block_id |-> E, shape_id |-> E,
   wheelchair_accessible |-> 0, bikes_allowed |-> 0]

StopTime ==
  [trip_id |-> E, stop_id |-> E, stop_sequence |-> Z,
   arrival_time |-> TimeDefault, departure_time |-> TimeDefault,
   stop_headsign |-> E, pickup_type |-> 0, drop_off_type |-> 0,
   shape_dist_traveled |-> 0, timepoint |-> 1]

CalendarItem ==
  [service_id |-> E, monday |-> 0, tuesday |-> 0, wednesday |-> 0,
   thursday |-> 0, friday |-> 0, saturday |-> 0, sunday |-> 0,
   start_date |-> DateDefault, end_date |-> DateDefault]

CalendarDate ==
  [service_id |-> E, date |-> DateDefault, exception_type |-> 1]

ShapePoint ==
  [shape_id |-> E, shape_pt_lat |-> 0, shape_pt_lon |-> 0,
   shape_pt_sequence |-> Z, shape_dist_traveled |-> 0]

Frequency ==
  [trip_id |-> E, start_time |-> TimeDefault, end_time |-> TimeDefault,
   headway_secs |-> Z, exact_times |-> 0]

Transfer ==
  [from_stop_id |-> E, to_stop_id |-> E, transfer_type |-> 0,
   min_transfer_time |-> Z]

\* The tables read_feed reads, in its order, and the tables it never reads.
FeedOrder ==
  <<"agency", "stops", "routes", "trips", "stop_times", "calendar",
    "calendar_dates", "shapes", "transfers", "frequencies">>

ReadTables == {FeedOrder[i] : i \in 1..Len(FeedOrder)}

UnreadTables ==
  {"fare_rules", "levels", "pathways", "translations", "attributions",
   "feed_info"}

AllTables == ReadTables \cup UnreadTables

\* read_<table>: the mapper handed to parse_csv and the entity it fills.
Handler(t) ==
  CASE t = "agency" -> [blocks |-> add_agency, entity |-> Agency]
    [] t = "stops" -> [blocks |-> add_stop, entity |-> Stop]
    [] t = "routes" -> [blocks |-> add_route, entity |-> Route]
    [] t = "trips" -> [blocks |-> add_trip, entity |-> Trip]
    [] t = "stop_times" -> [blocks |-> add_stop_time, entity |-> StopTime]
    [] t = "calendar" -> [blocks |-> add_calendar_item, entity |-> CalendarItem]
    [] t = "calendar_dates" -> [blocks |-> add_calendar_date, entity |-> CalendarDate]
    [] t = "shapes" -> [blocks |-> add_shape, entity |-> ShapePoint]
    [] t = "transfers" -> [blocks |-> add_transfer, entity |-> Transfer]
    [] t = "frequencies" -> [blocks |-> add_frequency, entity |-> Frequency]

\* Feed::add_<entity>(row) up to the push_back: [code, exc, rec].
Mapper(t, row) == RunBlocks(Handler(t).blocks, row, Handler(t).entity)

-----------------------------------------------------------------------------
(* The files: the columns a table file may have and the cells of its rows  *)

\* The columns of the modelled files, with the kind of value the mapper
\* parses from each.
Columns(t) ==
  CASE t = "agency" ->
         << <<"agency_id", "id">>, <<"agency_name", "text">>,
            <<"agency_url", "text">>, <<"agency_timezone", "text">>,
            <<"agency_lang", "text">> >>
    [] t = "stops" ->
         << <<"stop_id", "id">>, <<"stop_name", "text">>,
            <<"stop_lat", "lat">>, <<"stop_lon", "lon">>,
            <<"location_type", "int">> >>
    [] t = "routes" ->
         << <<"route_id", "id">>, <<"route_short_name", "text">>,
            <<"route_long_name", "text">>, <<"route_type", "int">>,
            <<"route_sort_order", "int">> >>
    [] t = "trips" ->
         << <<"route_id", "id">>, <<"service_id", "id">>,
            <<"trip_id", "id">>, <<"direction_id", "int">>,
            <<"shape_id", "id">> >>
    [] t = "stop_times" ->
         << <<"trip_id", "id">>, <<"arrival_time", "time">>,
            <<"departure_time", "time">>, <<"stop_id", "id">>,
            <<"stop_sequence", "int">>, <<"pickup_type", "int">>,
            <<"shape_dist_traveled", "dist">> >>
    [] t = "calendar" ->
         << <<"service_id", "id">>, <<"monday", "int">>,
            <<"tuesday", "int">>, <<"wednesday", "int">>,
            <<"thursday", "int">>, <<"friday", "int">>,
            <<"saturday", "int">>, <<"sunday", "int">>,
            <<"start_date", "date">>, <<"end_date", "date">> >>
    [] t = "calendar_dates" ->
         << <<"service_id", "id">>, <<"date", "date">>,
            <<"exception_type", "int">> >>
    [] t = "shapes" ->
         << <<"shape_id", "id">>, <<"shape_pt_lat", "lat">>,
            <<"shape_pt_lon", "lon">>, <<"shape_pt_sequence", "int">>,
            <<"shape_dist_traveled", "dist">> >>
    [] t = "transfers" ->
         << <<"from_stop_id", "id">>, <<"to_stop_id", "id">>,
            <<"transfer_type", "int">>, <<"min_transfer_time", "int">> >>
    [] t = "frequencies" ->
         << <<"trip_id", "id">>, <<"start_time", "time">>,
            <<"end_time", "time">>, <<"headway_secs", "int">>,
            <<"exact_times", "int">> >>

\* The fields each mapper reads as required (row.at, or set_field with
\* is_optional = false).
RequiredKeys(t) ==
  CASE t = "agency" -> {"agency_name", "agency_url", "agency_timezone"}
    [] t = "stops" -> {"stop_id"}
    [] t = "routes" -> {"route_id", "route_type"}
    [] t = "trips" -> {"route_id", "service_id", "trip_id"}
    [] t = "stop_times" ->
         {"trip_id", "stop_id", "stop_sequence", "departure_time",
          "arrival_time"}
    [] t = "calendar" ->
         {"service_id", "monday", "tuesday", "wednesday", "thursday",
          "friday", "saturday", "sunday", "start_date", "end_date"}
    [] t = "calendar_dates" -> {"service_id", "exception_type", "date"}
    [] t = "shapes" ->
         {"shape_id", "shape_pt_sequence", "shape_pt_lon", "shape_pt_lat"}
    [] t = "transfers" -> {"from_stop_id", "to_stop_id", "transfer_type"}
    [] t = "frequencies" ->
         {"trip_id", "start_time", "end_time", "headway_secs"}

\* A well-formed cell of each kind.
GoodCell(kind) ==
  CASE kind = "id" -> <<"x">>
    [] kind = "text" -> <<"x">>
    [] kind = "int" -> <<"1">>
    [] kind = "lat" -> <<"4", "5">>
    [] kind = "lon" -> <<"9", "1">>
    [] kind = "dist" -> <<"1", ".", "5">>
    [] kind = "time" -> <<"0", "8", ":", "0", "0", ":", "0", "0">>
    [] kind = "date" -> <<"2", "0", "2", "0", "0", "2", "2", "9">>

\* The other cells a file may hold in a column of each kind: empty, quoted,
\* not a number, negative, beyond int, out of range, malformed.
AltCells(kind) ==
  CASE kind = "id" -> { <<>> }
    [] kind = "text" -> { <<>>, <<QUOTE, "x", COMMA, SP, "x", QUOTE>> }
    [] kind = "int" ->
         { <<>>, <<"x">>, <<"-", "1">>,
           <<"9", "9", "9", "9", "9", "9", "9", "9", "9", "9">> }
    [] kind = "lat" -> { <<>>, <<"x">>, <<"9", "1">> }
    [] kind = "lon" -> { <<>>, <<"1", "8", "1">> }
    [] kind = "dist" -> { <<>>, <<"-", "1", ".", "5">> }
    [] kind = "time" ->
         { <<>>, <<"7", ":", "0", "5", ":", "6", "0">>,
           <<"0", "8", ":", "6", "1", ":", "0", "0">>,
           <<"8", ":", "0", "0">>,
           <<"x", ":", "0", "0", ":", "0", "0">> }
    [] kind = "date" ->
         { <<>>, <<"2", "0", "2", "1", "0", "2", "2", "9">>,
           <<"2", "0", "2", "0">> }

\* What an out-of-bounds read of the row's field vector may yield.
GarbageCells == { <<>>, <<"x">>, <<"1">> }

\* The other outcome of such a read: the process is killed.
Crash == <<"SIGSEGV">>

RECURSIVE Join(_)
Join(cells) ==
  IF cells = <<>> THEN <<>>
  ELSE IF Len(cells) = 1 THEN cells[1]
  ELSE cells[1] \o <<COMMA>> \o Join(Tail(cells))

Without(seq, k) == SubSeq(seq, 1, k - 1) \o SubSeq(seq, k + 1, Len(seq))

\* The header lines of t's file: all columns (with or without BOM), all
\* but one column, or a lone CR; one call of read_feed sees only the full
\* header and the header without its second column.
HeaderLines(t, rich) ==
  LET names == [i \in 1..Len(Columns(t)) |-> Str(Columns(t)[i][1])]
      full == Join(names)
  IN IF rich
       THEN {full, BOM \o full, <<CR>>}
              \cup {Join(Without(names, k)) : k \in 1..Len(names)}
       ELSE {full, Join(Without(names, 2))}

KindOf(t, name) ==
  IF \E i \in 1..Len(Columns(t)) : Str(Columns(t)[i][1]) = name
    THEN LET i == CHOOSE i \in 1..Len(Columns(t)) : Str(Columns(t)[i][1]) = name
         IN Columns(t)[i][2]
    ELSE "text"

\* The data lines of t's file under the header fs: the well-formed row,
\* the row with one cell replaced, with a trailing CR, with one field more
\* or fewer, the lone CR and the blank line; one call of read_feed sees
\* only the well-formed row and the rows with one cell replaced by "x".
GoodLine(t, fs) == Join([i \in 1..Len(fs) |-> GoodCell(KindOf(t, fs[i]))])

\* The number of lines read so far that are not the well-formed row.
OddLines(t, fs, cons) ==
  Cardinality({i \in 1..Len(cons) : cons[i].line # GoodLine(t, fs)})

DataLines(t, fs, rich) ==
  LET n == Len(fs)
      good == [i \in 1..n |-> GoodCell(KindOf(t, fs[i]))]
      alts(i) == IF rich THEN AltCells(KindOf(t, fs[i]))
                 ELSE IF KindOf(t, fs[i]) \in {"id", "text"} THEN {}
                 ELSE { <<"x">> }
      onecell == UNION {{Join([good EXCEPT ![i] = a]) : a \in alts(i)} : i \in 1..n}
  IN IF rich
       THEN {Join(good), Join(good) \o <<CR>>, Join(Append(good, <<"x">>)),
             Join(Without(good, n)), <<CR>>, <<>>} \cup onecell
       ELSE {Join(good)} \cup onecell

\* The directories: every table file is absent (rows = -1), holds no data
\* line or holds MaxRows of them; for read_feed every number of lines up to
\* MaxRows, the directories with one file absent, and no directory at all.
Uniform(n) == [exists |-> TRUE, rows |-> [t \in AllTables |-> n]]

NoDirectory == [exists |-> FALSE, rows |-> [t \in AllTables |-> -1]]

ReadDirs == {Uniform(n) : n \in {-1, 0, MaxRows}} \cup {NoDirectory}

FeedDirs ==
  {Uniform(n) : n \in 0..MaxRows}
    \cup {[exists |-> TRUE,
           rows |-> [t \in AllTables |-> IF t = a THEN -1 ELSE 1]] :
            a \in AllTables}
    \cup {NoDirectory}

-----------------------------------------------------------------------------
(* Feed::read_<table>, Feed::read_feed, Feed::parse_csv, read_header and   *)
(* read_row                                                                *)

EmptyFeed == [t \in AllTables |-> <<>>]

\* The state of a Feed after construction, before any call.
ReaderIdle ==
  /\ feed = EmptyFeed
  /\ call = "none"
  /\ cur = "none"
  /\ pc = "idle"
  /\ header_line = <<>>
  /\ field_sequence = <<>>
  /\ record = <<>>
  /\ result = "none"
  /\ consumed = <<>>
  /\ read_log = <<>>
  /\ adds = <<>>

\* The tables whose absence read_feed tolerates.
TolerateAbsent ==
  {"calendar", "calendar_dates", "shapes", "transfers", "frequencies"}

FeedIndex(t) == CHOOSE i \in 1..Len(FeedOrder) : FeedOrder[i] = t

\* Mutant: read_feed goes on to the next table whatever a table returned.
ReadFeedIgnoresResult(res) == FALSE

\* read_feed: does the result of cur's read make read_feed return it?
ReadFeedReturns(res) ==
  res # OK /\ ~(cur \in TolerateAbsent /\ res = ERROR_FILE_ABSENT)

\* parse_csv returns res: read_<table> returns it; read_feed returns it,
\* returns OK after the last table, or goes on to the next table.  The
\* log keeps what the table holds at that moment (no step that returns
\* appends a record).
Return(res) ==
  /\ read_log' = Append(read_log,
                         [table |-> cur, code |-> res, records |-> feed[cur]])
  /\ IF call = "read_table" \/ ReadFeedReturns(res)
       THEN /\ result' = res
            /\ pc' = "returned"
            /\ cur' = cur
       ELSE IF FeedIndex(cur) = Len(FeedOrder)
         THEN /\ result' = OK
              /\ pc' = "returned"
              /\ cur' = cur
         ELSE /\ result' = result
              /\ pc' = "open"
              /\ cur' = FeedOrder[FeedIndex(cur) + 1]

\* Feed::add_<entity>(const Entity &): push_back of an entity built by the
\* caller.
AddEntity(t) ==
  /\ pc = "idle"
  /\ Len(adds) < MaxAdds
  /\ adds' = Append(adds, t)
  /\ feed' = [feed EXCEPT ![t] = Append(@, Handler(t).entity)]
  /\ UNCHANGED <<tokvars, valvars, storevars,
                 dir, call, cur, pc, header_line, field_sequence, record, result,
                 consumed, read_log>>

\* Feed::read_<table>() is called.
CallReadTable(t) ==
  /\ pc = "idle"
  /\ call' = "read_table"
  /\ cur' = t
  /\ pc' = "open"
  /\ UNCHANGED <<tokvars, valvars, storevars,
                 dir, feed, header_line, field_sequence, record, result, consumed,
                 read_log, adds>>

\* Feed::read_feed() is called: the directory check, then read_agencies.
CallReadFeed ==
  /\ pc = "idle"
  /\ call' = "read_feed"
  /\ IF ~dir.exists
       THEN /\ result' = ERROR_INVALID_GTFS_PATH
            /\ pc' = "returned"
            /\ cur' = cur
       ELSE /\ result' = result
            /\ pc' = "open"
            /\ cur' = FeedOrder[1]
  /\ UNCHANGED <<tokvars, valvars, storevars,
                 dir, feed, header_line, field_sequence, record, consumed,
                 read_log, adds>>

\* Mutant: read_header takes an empty first line for a header.
read_header_keeps_empty(is_open, header) ==
  IF ~is_open THEN ERROR_FILE_ABSENT ELSE OK

\* CsvParser::read_header: the code it returns, given whether the file
\* could be opened and its first line (empty also when there is none).
read_header(is_open, header) ==
  IF ~is_open THEN ERROR_FILE_ABSENT
  ELSE IF header = <<>> THEN ERROR_INVALID_FIELD_FORMAT
  ELSE OK

\* parse_csv up to its loop: a new parser and record, read_header.
ReadHeader ==
  /\ pc = "open"
  /\ consumed' = <<>>
  /\ record' = <<>>
  /\ \E is_open \in {dir.exists /\ dir.rows[cur] >= 0} :
     \E first_line \in IF is_open
                        THEN HeaderLines(cur, call = "read_table") \cup {<<>>}
                        ELSE {<<>>} :
       /\ header_line' = first_line
       /\ IF read_header(is_open, first_line) # OK
            THEN /\ field_sequence' = <<>>
                 /\ Return(read_header(is_open, first_line))
            ELSE /\ field_sequence' = split_record(first_line, TRUE)
                 /\ pc' = "rows"
                 /\ UNCHANGED <<cur, result, read_log>>
  /\ UNCHANGED <<tokvars, valvars, storevars, dir, feed, call, adds>>

\* read_row meets the end of the file: parse_csv returns OK.
ReadRowEof ==
  /\ pc = "rows"
  /\ Len(consumed) = dir.rows[cur]
  /\ record' = <<>>
  /\ Return(OK)
  /\ UNCHANGED <<tokvars, valvars, storevars,
                 dir, feed, call, header_line, field_sequence, consumed, adds>>

\* read_row reads the line "\r": the record is emptied and parse_csv goes
\* on with the next line.
ReadRowBlank ==
  /\ pc = "rows"
  /\ Len(consumed) < dir.rows[cur]
  /\ <<CR>> \in DataLines(cur, field_sequence, call = "read_table")
  /\ OddLines(cur, field_sequence, consumed) < MaxOdd
  /\ record' = <<>>
  /\ consumed' = Append(consumed,
                        [line |-> <<CR>>, mismatch |-> FALSE, oob |-> FALSE,
                         row |-> <<>>, mapped |-> FALSE, code |-> OK,
                         rec |-> <<>>])
  /\ UNCHANGED <<tokvars, valvars, storevars,
                 dir, feed, call, cur, pc, header_line, field_sequence, result,
                 read_log, adds>>

\* Mutant: parse_csv goes on with the next row whatever the mapper returned.
parse_csv_goes_on(res) == FALSE

\* parse_csv: does the mapper's result make parse_csv return it?
parse_csv_stops(res) == res # OK

\* The map read_row leaves in obj: cleared when the field counts differ,
\* then one assignment per header field; garbage is what the reads beyond
\* the row's fields yield.
read_row_obj(obj, fs, fields_values, garbage) ==
  LET obj0 == IF Len(fields_values) # Len(fs) THEN <<>> ELSE obj
      value(i) == IF i <= Len(fields_values) THEN fields_values[i] ELSE garbage
      last(k) == CHOOSE i \in 1..Len(fs) :
                   fs[i] = k /\ \A j \in 1..Len(fs) : fs[j] = k => j <= i
  IN [k \in DOMAIN obj0 \cup {fs[i] : i \in 1..Len(fs)} |->
        IF \E i \in 1..Len(fs) : fs[i] = k THEN value(last(k)) ELSE obj0[k]]

\* read_row reads any other line; parse_csv hands the record to the mapper
\* unless it is empty, and returns the mapper's failure.  A row with fewer
\* fields than the header makes read_row read beyond the row's fields:
\* the process may crash, or go on with garbage values.
ReadRowMap ==
  /\ pc = "rows"
  /\ Len(consumed) < dir.rows[cur]
  /\ \E ln \in IF OddLines(cur, field_sequence, consumed) < MaxOdd
                 THEN DataLines(cur, field_sequence, call = "read_table")
                        \ {<<CR>>}
                 ELSE {GoodLine(cur, field_sequence)},
        garbage \in GarbageCells \cup {Crash} :
     \E fields_values \in {split_record(ln, FALSE)} :
     \E oob \in {Len(fields_values) < Len(field_sequence)} :
       /\ ~oob => garbage = <<>>
       /\ IF oob /\ garbage = Crash
            THEN /\ pc' = "crashed"
                 /\ consumed' = Append(consumed,
                      [line |-> ln, mismatch |-> TRUE, oob |-> TRUE,
                       row |-> <<>>, mapped |-> FALSE, code |-> "CRASH",
                       rec |-> <<>>])
                 /\ UNCHANGED <<feed, cur, record, result, read_log>>
            ELSE
              \E obj \in {read_row_obj(record, field_sequence, fields_values,
                                       garbage)} :
              \E out \in {Mapper(cur, obj)} :
                LET entry(mapped, code, rec) ==
                      [line |-> ln,
                       mismatch |-> Len(fields_values) # Len(field_sequence),
                       oob |-> oob, row |-> obj, mapped |-> mapped,
                       code |-> code, rec |-> rec]
                IN /\ record' = obj
                   /\ IF DOMAIN obj = {}
                        THEN /\ consumed' = Append(consumed, entry(FALSE, OK, <<>>))
                             /\ UNCHANGED <<feed, cur, pc, result, read_log>>
                      ELSE IF out.code = "THROWN"
                        THEN /\ consumed' =
                                  Append(consumed, entry(TRUE, out.exc, <<>>))
                             /\ pc' = "thrown"
                             /\ UNCHANGED <<feed, cur, result, read_log>>
                      ELSE /\ consumed' =
                                Append(consumed,
                                       entry(TRUE, out.code,
                                             IF out.code = OK THEN out.rec
                                             ELSE <<>>))
                           /\ feed' = IF out.code = OK
                                        THEN [feed EXCEPT
                                                ![cur] = Append(@, out.rec)]
                                        ELSE feed
                           /\ IF parse_csv_stops(out.code)
                                THEN Return(out.code)
                                ELSE UNCHANGED <<cur, pc, result, read_log>>
  /\ UNCHANGED <<tokvars, valvars, storevars,
                 dir, call, header_line, field_sequence, adds>>

TokenizerIdle ==
  /\ line = <<>>
  /\ is_header = FALSE
  /\ fields = <<>>
  /\ split_pc = "idle"

\* No Time or Date has been constructed and no get_ call made.
NoValue ==
  /\ std_sort_stable = TRUE
  /\ query = <<>>
  /\ answer = <<>>
  /\ args = <<>>
  /\ thrown = "none"
  /\ time = TimeDefault
  /\ time_before = TimeDefault
  /\ limit_returned = <<>>
  /\ date = DateDefault
  /\ date_again = <<>>
  /\ val_pc = "idle"

\* One read_<table>() call on a Feed, after at most MaxAdds add_ calls.
InitRead ==
  /\ NoValue
  /\ TokenizerIdle
  /\ ReaderIdle
  /\ dir \in ReadDirs

AddTables == {"agency", "stops"}

NextRead ==
  \/ \E t \in AddTables : AddEntity(t)
  \/ \E t \in ReadTables : CallReadTable(t)
  \/ ReadHeader
  \/ ReadRowEof
  \/ ReadRowBlank
  \/ ReadRowMap

SpecRead == InitRead /\ [][NextRead]_vars

\* One read_feed() call on a new Feed.
InitFeed ==
  /\ NoValue
  /\ TokenizerIdle
  /\ ReaderIdle
  /\ dir \in FeedDirs

NextFeed ==
  \/ CallReadFeed
  \/ ReadHeader
  \/ ReadRowEof
  \/ ReadRowMap

SpecFeed == InitFeed /\ [][NextFeed]_vars

-----------------------------------------------------------------------------
(* Mapper specification: each add_<entity>(row) applied to bounded rows *)

\* The values a tokenized field of each kind may hold.
RowCells(kind) ==
  {c \in {GoodCell(kind)} \cup AltCells(kind) :
     \A i \in 1..Len(c) : c[i] # QUOTE}

\* The mappings read_row may hand to the mapper of t: any of the first n
\* columns of t present, each with one of the cells of its kind.
RECURSIVE Rows(_, _)
Rows(t, n) ==
  IF n = 0 THEN {<<>>}
  ELSE LET col == Columns(t)[n]
       IN Rows(t, n - 1) \cup
          {r @@ (Str(col[1]) :> c) : r \in Rows(t, n - 1),
                                     c \in RowCells(col[2])}

\* The mappings handed to the mapper of t: every mapping over the columns
\* of t when t has few columns, and for the other tables the mappings
\* that differ from the well-formed row in at most two columns (absent
\* or holding another cell).
MapperRows(t) ==
  LET cols == Columns(t)
      n == Len(cols)
      absent == <<"absent">>
      good == [i \in 1..n |-> GoodCell(cols[i][2])]
      cells(i) == RowCells(cols[i][2]) \cup {absent}
      present(v) == {i \in 1..n : v[i] # absent}
      row(v) == [k \in {Str(cols[i][1]) : i \in present(v)} |->
                   v[CHOOSE i \in 1..n : Str(cols[i][1]) = k]]
  IN IF n <= MaxColumns THEN Rows(t, n)
     ELSE UNION {UNION {{row([[good EXCEPT ![i] = a] EXCEPT ![j] = b]) :
                           a \in cells(i), b \in cells(j)} :
                        j \in 1..n} : i \in 1..n}

InitMap ==
  /\ NoValue
  /\ TokenizerIdle
  /\ dir = Uniform(1)
  /\ feed = EmptyFeed
  /\ call = "add_row"
  /\ cur \in ReadTables
  /\ pc = "row"
  /\ header_line = <<>>
  /\ field_sequence = <<>>
  /\ record \in {r \in MapperRows(cur) : DOMAIN r # {}}
  /\ result = "none"
  /\ consumed = <<>>
  /\ read_log = <<>>
  /\ adds = <<>>

\* parse_csv's call of the mapper on one row: the entity is appended when
\* the mapper returns OK, and an exception leaves the call.
AddRow ==
  /\ call = "add_row"
  /\ pc = "row"
  /\ \E out \in {Mapper(cur, record)} :
       IF out.code = "THROWN"
         THEN /\ pc' = "thrown"
              /\ result' = out.exc
              /\ UNCHANGED feed
         ELSE /\ pc' = "returned"
              /\ result' = out.code
              /\ feed' = IF out.code = OK
                           THEN [feed EXCEPT ![cur] = Append(@, out.rec)]
                           ELSE feed
  /\ UNCHANGED <<tokvars, valvars, storevars, dir, call, cur, header_line, field_sequence,
                 record, consumed, read_log, adds>>

NextMap == AddRow

SpecMap == InitMap /\ [][NextMap]_vars

-----------------------------------------------------------------------------
(* Value specification: one Time or one Date constructed from bounded     *)
(* arguments, then limit_hours_to_24max called on the Time, or the Date    *)
(* constructed again from its raw text                                     *)

\* The texts handed to Time(const std::string &): every [H]H:MM:SS of the
\* hours, minutes and seconds below, and texts of another length, with
\* another separator, or with a component that is not a run of digits.
TimeTexts ==
  LET H == { <<"0">>, <<"7">>, <<"9">>, <<"0", "0">>, <<"0", "7">>,
             <<"1", "0">>, <<"2", "3">>, <<"2", "4">>, <<"2", "7">>,
             <<"4", "8">>, <<"9", "9">> }
      MS == { <<"0", "0">>, <<"0", "5">>, <<"5", "9">>, <<"6", "0">>,
              <<"6", "1">>, <<"9", "9">> }
  IN {h \o <<":">> \o m \o <<":">> \o sec : h \in H, m \in MS, sec \in MS}
     \cup
     { <<>>,
       <<"8", ":", "0", "0">>,
       <<"8", ":", "0", ":", "0">>,
       <<"0", "8", ":", "0", "0", ":", "0">>,
       <<"0", "0", "8", ":", "0", "0", ":", "0", "0">>,
       <<"0", "8", "0", "0", "0", "0", "0">>,
       <<"0", "8", "/", "0", "0", "/", "0", "0">>,
       <<"0", "8", "/", "0", "0", ":", "0", "0">>,
       <<"0", "8", ":", "0", "0", "/", "0", "0">>,
       <<"8", "/", "6", "1", ":", "0", "0">>,
       <<"x", "8", ":", "0", "0", ":", "0", "0">>,
       <<"0", "8", ":", "x", "0", ":", "0", "0">>,
       <<"-", "1", ":", "0", "0", ":", "0", "0">>,
       <<"0", "8", ":", "-", "1", ":", "0", "0">>,
       <<"0", "8", ":", "+", "5", ":", "0", "0">> }

\* The integers handed to Time(uint16_t, uint16_t, uint16_t).
TimeInts ==
  {0, 3, 9, 10, 23, 24, 27, 99, 100, 255, 65535}
    \X {0, 5, 59, 60, 61, 65535} \X {0, 59, 60, 61}

\* The texts handed to Date(const std::string &): every YYYYMMDD of the
\* years, months and days below, and texts of another length or with a
\* component that is not a run of digits.
DateTexts ==
  LET Y == { <<"0", "9", "9", "9">>, <<"1", "0", "0", "0">>,
             <<"1", "9", "0", "0">>, <<"2", "0", "0", "0">>,
             <<"2", "0", "2", "0">>, <<"2", "0", "2", "1">>,
             <<"9", "9", "9", "9">> }
      M == { <<"0", "0">>, <<"0", "1">>, <<"0", "2">>, <<"0", "4">>,
             <<"1", "2">>, <<"1", "3">> }
      D == { <<"0", "0">>, <<"0", "1">>, <<"2", "8">>, <<"2", "9">>,
             <<"3", "0">>, <<"3", "1">>, <<"3", "2">> }
  IN {y \o m \o d : y \in Y, m \in M, d \in D}
     \cup
     { <<>>,
       <<"2", "0", "2", "0">>,
       <<"2", "0", "2", "0", "1", "2", "1">>,
       <<"2", "0", "2", "0", "-", "1", "2", "-", "3", "1">>,
       <<"2", "0", "2", "0", "0", "1", "0", "1", "0">>,
       <<"x", "0", "2", "0", "0", "1", "0", "1">>,
       <<"2", "0", "2", "0", "x", "1", "0", "1">>,
       <<"2", "0", "2", "0", "0", "1", "-", "1">>,
       <<"2", "0", "2", "0", "0", "1", "+", "1">> }

\* The integers handed to Date(uint16_t, uint16_t, uint16_t).
DateInts ==
  {0, 999, 1000, 1900, 2000, 2020, 2021, 9999, 10000, 65535}
    \X {0, 1, 2, 4, 12, 13, 65535} \X {0, 1, 28, 29, 30, 31, 32}

InitValue ==
  /\ TokenizerIdle
  /\ ReaderIdle
  /\ dir = NoDirectory
  /\ std_sort_stable = TRUE
  /\ query = <<>>
  /\ answer = <<>>
  /\ args = <<>>
  /\ thrown = "none"
  /\ time = TimeDefault
  /\ time_before = TimeDefault
  /\ limit_returned = <<>>
  /\ date = DateDefault
  /\ date_again = <<>>
  /\ val_pc = "new"

\* Time time(raw_time_str);
TimeOfText ==
  /\ val_pc = "new"
  /\ \E raw_time_str \in TimeTexts :
     \E r \in {TimeFromString(raw_time_str)} :
       /\ args' = [type |-> "Time", of |-> "text", text |-> raw_time_str]
       /\ thrown' = r.exc
       /\ time' = IF r.exc = "none" THEN r.time ELSE time
       /\ val_pc' = IF r.exc = "none" THEN "time" ELSE "thrown"
  /\ UNCHANGED <<tokvars, readvars, storevars, time_before, limit_returned, date,
                 date_again>>

\* Time time(hours, minutes, seconds);
TimeOfInts ==
  /\ val_pc = "new"
  /\ \E hms \in TimeInts :
     \E r \in {TimeFromInts(hms[1], hms[2], hms[3])} :
       /\ args' = [type |-> "Time", of |-> "ints", ints |-> hms]
       /\ thrown' = r.exc
       /\ time' = IF r.exc = "none" THEN r.time ELSE time
       /\ val_pc' = IF r.exc = "none" THEN "time" ELSE "thrown"
  /\ UNCHANGED <<tokvars, readvars, storevars, time_before, limit_returned, date,
                 date_again>>

\* time.limit_hours_to_24max();
LimitHours ==
  /\ val_pc = "time"
  /\ Len(limit_returned) < MaxLimitCalls
  /\ \E r \in {limit_hours_to_24max(time)} :
       /\ time_before' = time
       /\ time' = r.time
       /\ limit_returned' = Append(limit_returned, r.ret)
  /\ UNCHANGED <<tokvars, readvars, storevars, args, thrown, date, date_again, val_pc>>

\* Date date(raw_date_str);
DateOfText ==
  /\ val_pc = "new"
  /\ \E raw_date_str \in DateTexts :
     \E r \in {DateFromString(raw_date_str)} :
       /\ args' = [type |-> "Date", of |-> "text", text |-> raw_date_str]
       /\ thrown' = r.exc
       /\ date' = IF r.exc = "none" THEN r.date ELSE date
       /\ val_pc' = IF r.exc = "none" THEN "date" ELSE "thrown"
  /\ UNCHANGED <<tokvars, readvars, storevars, time, time_before, limit_returned,
                 date_again>>

\* Date date(year, month, day);
DateOfInts ==
  /\ val_pc = "new"
  /\ \E ymd \in DateInts :
     \E r \in {DateFromInts(ymd[1], ymd[2], ymd[3])} :
       /\ args' = [type |-> "Date", of |-> "ints", ints |-> ymd]
       /\ thrown' = r.exc
       /\ date' = IF r.exc = "none" THEN r.date ELSE date
       /\ val_pc' = IF r.exc = "none" THEN "date" ELSE "thrown"
  /\ UNCHANGED <<tokvars, readvars, storevars, time, time_before, limit_returned,
                 date_again>>

\* Date again(date.get_raw_date());
DateAgain ==
  /\ val_pc = "date"
  /\ date_again = <<>>
  /\ date_again' = DateFromString(date.raw_date)
  /\ UNCHANGED <<tokvars, readvars, storevars, args, thrown, time, time_before,
                 limit_returned, date, val_pc>>

NextValue ==
  \/ TimeOfText
  \/ TimeOfInts
  \/ LimitHours
  \/ DateOfText
  \/ DateOfInts
  \/ DateAgain

SpecValue == InitValue /\ [][NextValue]_vars

-----------------------------------------------------------------------------
(* Store specification: add_<entity>(entity), read_<table>() and get_      *)
(* calls on one table of a Feed                                            *)

\* The entities add_<entity>(const Entity &) is given: two values of every
\* key field, and another field that tells records of equal key apart.
Stored(t) ==
  LET ab == {<<"a">>, <<"b">>}
      xy == {<<"x">>, <<"y">>}
      seqs == {size_t_of(1), size_t_of(2)}
  IN CASE t = "agency" ->
            {[Agency EXCEPT !.agency_id = i, !.agency_name = n] :
               i \in {<<>>, <<"a">>}, n \in xy}
       [] t = "stops" ->
            {[Stop EXCEPT !.stop_id = i, !.stop_name = n] : i \in ab, n \in xy}
       [] t = "routes" ->
            {[Route EXCEPT !.route_id = i, !.route_long_name = n] :
               i \in ab, n \in xy}
       [] t = "trips" ->
            {[Trip EXCEPT !.trip_id = i, !.trip_headsign = n] :
               i \in ab, n \in xy}
       [] t = "calendar" ->
            {[CalendarItem EXCEPT !.service_id = i, !.monday = n] :
               i \in ab, n \in {0, 1}}
       [] t = "fare_rules" ->
            {[fare_id |-> i, route_id |-> n, origin_id |-> <<>>,
              destination_id |-> <<>>, contains_id |-> <<>>] :
               i \in ab, n \in xy}
       [] t = "levels" ->
            {[level_id |-> i, level_index |-> 0, level_name |-> n] :
               i \in ab, n \in xy}
       [] t = "pathways" ->
            {[pathway_d |-> i, from_stop_id |-> f, to_stop_id |-> g,
              pathway_mode |-> 1, is_bidirectional |-> 0] :
               i \in ab, f \in ab, g \in ab}
       [] t = "transfers" ->
            {[Transfer EXCEPT !.from_stop_id = f, !.to_stop_id = g,
                              !.transfer_type = n] :
               f \in ab, g \in ab, n \in {0, 1}}
       [] t = "stop_times" ->
            {[StopTime EXCEPT !.trip_id = i, !.stop_sequence = q,
                              !.stop_id = n] :
               i \in ab, q \in seqs, n \in xy}
       [] t = "shapes" ->
            {[ShapePoint EXCEPT !.shape_id = i, !.shape_pt_sequence = q,
                                !.shape_pt_lat = n] :
               i \in ab, q \in seqs, n \in {0, 1}}
       [] t = "frequencies" ->
            {[Frequency EXCEPT !.trip_id = i, !.headway_secs = q] :
               i \in ab, q \in seqs}
       [] t = "calendar_dates" ->
            {[CalendarDate EXCEPT !.service_id = i, !.date = d,
                                  !.exception_type = n] :
               i \in ab, n \in {1, 2},
               d \in {DateFromString(<<"2", "0", "2", "0", "0", "1", "0", "1">>).date,
                      DateFromString(<<"2", "0", "2", "0", "+", "1", "+", "2">>).date,
                      DateFromInts(2020, 1, 3).date}}

\* The ids the get_ calls are given.
QueryIds == {<<>>, <<"a">>, <<"b">>}

\* A new Feed; the calls of one behaviour address one table, cur.
InitStore ==
  /\ TokenizerIdle
  /\ dir = Uniform(MaxRows)
  /\ feed = EmptyFeed
  /\ call = "none"
  /\ cur \in AllTables \ {"translations", "attributions", "feed_info"}
  /\ pc = "idle"
  /\ header_line = <<>>
  /\ field_sequence = <<>>
  /\ record = <<>>
  /\ result = "none"
  /\ consumed = <<>>
  /\ read_log = <<>>
  /\ adds = <<>>
  /\ args = <<>>
  /\ thrown = "none"
  /\ time = TimeDefault
  /\ time_before = TimeDefault
  /\ limit_returned = <<>>
  /\ date = DateDefault
  /\ date_again = <<>>
  /\ val_pc = "idle"
  /\ std_sort_stable \in BOOLEAN
  /\ query = <<>>
  /\ answer = <<>>

\* Mutant: push_back replaces the content of the table.
push_back_replaces(table, entity) == <<entity>>

\* std::vector::push_back, as add_<entity> and the row mappers call it.
push_back(table, entity) == Append(table, entity)

\* Feed::add_<entity>(const Entity &): push_back.
AddRecord ==
  /\ pc = "idle"
  /\ Len(feed[cur]) < MaxStored
  /\ \E entity \in Stored(cur) :
       feed' = [feed EXCEPT ![cur] = push_back(@, entity)]
  /\ query' = <<>>
  /\ answer' = <<>>
  /\ UNCHANGED <<tokvars, valvars, std_sort_stable, dir, call, cur, pc,
                 header_line, field_sequence, record, result, consumed,
                 read_log, adds>>

\* Mutant: get_agency looks for the id also when the only agency is asked for.
get_agency_by_id_only(agencies, agency_id) ==
  IF \E i \in 1..Len(agencies) : agencies[i].agency_id = agency_id
    THEN <<agencies[CHOOSE i \in 1..Len(agencies) :
                      /\ agencies[i].agency_id = agency_id
                      /\ \A j \in 1..(i - 1) :
                           agencies[j].agency_id # agency_id]>>
    ELSE <<>>

\* Feed::get_agency: <<>> for std::nullopt, else the agency found.
get_agency(agencies, agency_id) ==
  IF agency_id = <<>> /\ Len(agencies) = 1 THEN <<agencies[1]>>
  ELSE IF \E i \in 1..Len(agencies) : agencies[i].agency_id = agency_id
    THEN <<agencies[CHOOSE i \in 1..Len(agencies) :
                      /\ agencies[i].agency_id = agency_id
                      /\ \A j \in 1..(i - 1) :
                           agencies[j].agency_id # agency_id]>>
    ELSE <<>>

\* feed.get_agency(agency_id);
GetAgency ==
  /\ pc = "idle"
  /\ cur = "agency"
  /\ \E agency_id \in QueryIds :
       /\ query' = [get |-> "get_agency", ids |-> <<agency_id>>, sort |-> FALSE]
       /\ answer' = get_agency(feed["agency"], agency_id)
  /\ UNCHANGED <<tokvars, readvars, valvars, std_sort_stable>>

\* The get_ calls that return std::optional: the table each scans and the
\* fields its predicate compares with the ids given.
Getters ==
  { [get |-> "get_stop", table |-> "stops", keys |-> <<"stop_id">>],
    [get |-> "get_route", table |-> "routes", keys |-> <<"route_id">>],
    [get |-> "get_trip", table |-> "trips", keys |-> <<"trip_id">>],
    [get |-> "get_calendar", table |-> "calendar", keys |-> <<"service_id">>],
    [get |-> "get_fare_rule", table |-> "fare_rules", keys |-> <<"fare_id">>],
    [get |-> "get_level", table |-> "levels", keys |-> <<"level_id">>],
    [get |-> "get_pathway", table |-> "pathways", keys |-> <<"pathway_d">>],
    [get |-> "get_transfer", table |-> "transfers",
     keys |-> <<"from_stop_id", "to_stop_id">>],
    [get |-> "get_pathway(from, to)", table |-> "pathways",
     keys |-> <<"from_stop_id", "to_stop_id">>] }

\* Mutant: the scan returns the last record that matches.
find_last(table, keys, ids) ==
  LET found == {i \in 1..Len(table) :
                  \A k \in 1..Len(keys) : table[i][keys[k]] = ids[k]}
  IN IF found = {} THEN <<>>
     ELSE <<table[CHOOSE i \in found : \A j \in found : j <= i]>>

\* std::find_if over the table with the getter's predicate: <<>> for
\* std::nullopt, else the record the iterator points to.
find_if(table, keys, ids) ==
  LET found == {i \in 1..Len(table) :
                  \A k \in 1..Len(keys) : table[i][keys[k]] = ids[k]}
  IN IF found = {} THEN <<>>
     ELSE <<table[CHOOSE i \in found : \A j \in found : i <= j]>>

\* feed.get_stop(stop_id); .. feed.get_pathway(from_stop_id, to_stop_id);
GetOptional ==
  /\ pc = "idle"
  /\ \E g \in Getters :
     \E ids \in [1..Len(g.keys) -> QueryIds] :
       /\ g.table = cur
       /\ query' = [get |-> g.get, ids |-> ids, sort |-> FALSE]
       /\ answer' = find_if(feed[g.table], g.keys, ids)
  /\ UNCHANGED <<tokvars, readvars, valvars, std_sort_stable>>

\* The get_ calls that return a vector: the table each scans, the field
\* compared with the id, and the field its comparator orders by ("" when
\* the call has no sort argument).
Collections ==
  { [get |-> "get_stop_times_for_stop", table |-> "stop_times",
     key |-> "stop_id", order |-> ""],
    [get |-> "get_stop_times_for_trip", table |-> "stop_times",
     key |-> "trip_id", order |-> "stop_sequence"],
    [get |-> "get_calendar_dates", table |-> "calendar_dates",
     key |-> "service_id", order |-> "date"],
    [get |-> "get_shape", table |-> "shapes",
     key |-> "shape_id", order |-> "shape_pt_sequence"],
    [get |-> "get_frequencies", table |-> "frequencies",
     key |-> "trip_id", order |-> ""] }

\* operator<(const std::string &, const std::string &) on the characters
\* of a raw date: lexicographic by character code.
RECURSIVE string_less(_, _)
string_less(lhs, rhs) ==
  LET code(c) == IF c = "+" THEN 43 ELSE IF c = "-" THEN 45
                 ELSE 48 + DigitVal(c)
  IN IF rhs = <<>> THEN FALSE
     ELSE IF lhs = <<>> THEN TRUE
     ELSE IF Head(lhs) # Head(rhs) THEN code(Head(lhs)) < code(Head(rhs))
     ELSE string_less(Tail(lhs), Tail(rhs))

\* The comparators handed to std::sort.
Less(order, e1, e2) ==
  IF order = "date"
    THEN string_less(e1.date.raw_date, e2.date.raw_date)
    ELSE \/ e1[order].wrap < e2[order].wrap
         \/ e1[order].wrap = e2[order].wrap /\ e1[order].off < e2[order].off

\* std::sort(res.begin(), res.end(), comparator): the result is ordered by
\* the comparator; the order of equivalent elements is unspecified, and is
\* what this build makes it: kept (stable) or reversed.
RECURSIVE std_sort(_, _, _)
std_sort(res, order, stable) ==
  LET x == res[Len(res)]
      before(sorted) ==
        Cardinality({i \in 1..Len(sorted) :
                       IF stable THEN ~Less(order, x, sorted[i])
                       ELSE Less(order, sorted[i], x)})
      insert(sorted, n) ==
        SubSeq(sorted, 1, n) \o <<x>> \o SubSeq(sorted, n + 1, Len(sorted))
      place(sorted) == insert(sorted, before(sorted))
  IN IF res = <<>> THEN <<>>
     ELSE place(std_sort(SubSeq(res, 1, Len(res) - 1), order, stable))

\* feed.get_stop_times_for_trip(trip_id, sort_by_sequence); and the like
GetCollection ==
  /\ pc = "idle"
  /\ \E c \in Collections :
     \E id \in QueryIds, sort \in BOOLEAN :
     \E res \in {SelectSeq(feed[c.table], LAMBDA e : e[c.key] = id)} :
       /\ c.table = cur
       /\ sort => c.order # ""
       /\ query' = [get |-> c.get, ids |-> <<id>>, sort |-> sort]
       /\ answer' = IF sort THEN std_sort(res, c.order, std_sort_stable)
                    ELSE res
  /\ UNCHANGED <<tokvars, readvars, valvars, std_sort_stable>>

\* Feed::parse_csv after read_header: the rows of the file are read one
\* after the other into the one record obj; the code parse_csv returns
\* and the table it leaves ("THROWN": the mapper let an exception out).
RECURSIVE parse_csv(_, _, _, _, _)
parse_csv(t, fs, rows, obj, table) ==
  IF rows = <<>> THEN [code |-> OK, table |-> table]
  ELSE LET add_entity(rcd, out) ==
             IF DOMAIN rcd = {} THEN parse_csv(t, fs, Tail(rows), rcd, table)
             ELSE IF out.code = OK
               THEN parse_csv(t, fs, Tail(rows), rcd,
                              push_back(table, out.rec))
             ELSE [code |-> out.code, table |-> table]
           read_row(rcd) == add_entity(rcd, Mapper(t, rcd))
       IN read_row(read_row_obj(obj, fs, split_record(Head(rows), FALSE),
                                <<>>))

\* Feed::read_<table>() as one step, on a file whose rows have as many
\* fields as its header.
ReadTable ==
  /\ pc = "idle"
  /\ cur \in ReadTables
  /\ \E first_line \in HeaderLines(cur, FALSE) :
     \E fs \in {split_record(first_line, TRUE)} :
     \E n \in 0..MaxFileRows :
     \E rows \in [1..n -> DataLines(cur, fs, FALSE)] :
     \E res \in IF Len(feed[cur]) + n <= MaxStored
                  THEN {parse_csv(cur, fs, rows, <<>>, feed[cur])}
                  ELSE {} :
       /\ feed' = [feed EXCEPT ![cur] = res.table]
       /\ pc' = IF res.code = "THROWN" THEN "thrown" ELSE "idle"
  /\ query' = <<>>
  /\ answer' = <<>>
  /\ UNCHANGED <<tokvars, valvars, std_sort_stable, dir, call, cur,
                 header_line, field_sequence, record, result, consumed,
                 read_log, adds>>

NextStore ==
  \/ AddRecord
  \/ ReadTable
  \/ GetAgency
  \/ GetOptional
  \/ GetCollection

SpecStore == InitStore /\ [][NextStore]_vars

-----------------------------------------------------------------------------
(* The older header, src/just_gtfs.h: one read_agencies() call.  Its       *)
(* read_row returns ERROR_INVALID_FIELD_FORMAT on a row whose field count  *)
(* differs from the header's and leaves obj as it was; its parse_csv       *)
(* looks only for END_OF_FILE.  Its add_agency (lines 892-919) is the      *)
(* add_agency above, and on lines without space or quote its split_record  *)
(* (lines 78-131) is the split_record above.                               *)

InitOlder ==
  /\ NoValue
  /\ TokenizerIdle
  /\ dir = Uniform(MaxRows)
  /\ feed = EmptyFeed
  /\ call = "older read_table"
  /\ cur = "agency"
  /\ pc = "open"
  /\ header_line = <<>>
  /\ field_sequence = <<>>
  /\ record = <<>>
  /\ result = "none"
  /\ consumed = <<>>
  /\ read_log = <<>>
  /\ adds = <<>>

\* The older parse_csv up to its loop: read_header on a file that opens.
OlderReadHeader ==
  /\ pc = "open"
  /\ \E first_line \in HeaderLines(cur, FALSE) \cup {<<>>} :
       /\ header_line' = first_line
       /\ IF first_line = <<>>
            THEN /\ result' = ERROR_INVALID_FIELD_FORMAT
                 /\ pc' = "returned"
                 /\ UNCHANGED field_sequence
            ELSE /\ field_sequence' = split_record(first_line, TRUE)
                 /\ pc' = "rows"
                 /\ UNCHANGED result
  /\ UNCHANGED <<tokvars, valvars, storevars, dir, feed, call, cur, record,
                 consumed, read_log, adds>>

\* One turn of the older parse_csv's loop: read_row, whose result is
\* compared with END_OF_FILE only, then the mapper on a record that is
\* not empty.
OlderReadRow ==
  /\ pc = "rows"
  /\ IF Len(consumed) = dir.rows[cur]
       THEN /\ record' = <<>>
            /\ result' = OK
            /\ pc' = "returned"
            /\ UNCHANGED <<feed, consumed>>
       ELSE
         \E ln \in {l \in DataLines(cur, field_sequence, TRUE) :
                      \A i \in 1..Len(l) : l[i] \notin {SP, QUOTE}} :
         \E fields_values \in {split_record(ln, FALSE)} :
         \E mismatch \in {Len(fields_values) # Len(field_sequence)} :
         \E obj \in {IF mismatch THEN record
                      ELSE read_row_obj(record, field_sequence, fields_values,
                                        <<>>)} :
         \E out \in {Mapper(cur, obj)} :
           LET entry(mapped, code, rec) ==
                 [line |-> ln, mismatch |-> mismatch, oob |-> FALSE,
                  row |-> obj, mapped |-> mapped, code |-> code, rec |-> rec]
           IN /\ record' = obj
              /\ IF DOMAIN obj = {}
                   THEN /\ consumed' = Append(consumed, entry(FALSE, OK, <<>>))
                        /\ UNCHANGED <<feed, pc, result>>
                 ELSE IF out.code = OK
                   THEN /\ consumed' = Append(consumed, entry(TRUE, OK, out.rec))
                        /\ feed' = [feed EXCEPT ![cur] = Append(@, out.rec)]
                        /\ UNCHANGED <<pc, result>>
                 ELSE /\ consumed' = Append(consumed, entry(TRUE, out.code, <<>>))
                      /\ result' = out.code
                      /\ pc' = "returned"
                      /\ UNCHANGED feed
  /\ UNCHANGED <<tokvars, valvars, storevars, dir, call, cur, header_line,
                 field_sequence, read_log, adds>>

NextOlder == OlderReadHeader \/ OlderReadRow

SpecOlder == InitOlder /\ [][NextOlder]_vars

-----------------------------------------------------------------------------
(* Tokenizer specification: split_record applied to every bounded line *)

LineChars == {"x", SP, COMMA, QUOTE, CR, TAB, BOM1, BOM2, BOM3}

SeqsUpTo(S, n) == UNION {[1..k -> S] : k \in 0..n}

Lines == SeqsUpTo(LineChars, MaxLineLen)

InitSplit ==
  /\ line \in Lines
  /\ is_header \in BOOLEAN
  /\ fields = <<>>
  /\ split_pc = "call"
  /\ NoValue
  /\ ReaderIdle
  /\ dir = [exists |-> FALSE, rows |-> [t \in AllTables |-> -1]]

SplitRecord ==
  /\ split_pc = "call"
  /\ fields' = split_record(line, is_header)
  /\ split_pc' = "done"
  /\ UNCHANGED <<line, is_header, readvars, valvars, storevars>>

NextSplit == SplitRecord

SpecSplit == InitSplit /\ [][NextSplit]_vars

-----------------------------------------------------------------------------
(* Reference notions for the table-read claims, defined on the histories   *)
(* of a call.                                                              *)

\* What the add_<entity>(entity) calls put into table t before the read.
EarlierContent(t) ==
  [i \in 1..Cardinality({j \in 1..Len(adds) : adds[j] = t}) |->
     Handler(t).entity]

\* The records of the rows mapped successfully, in row order.
MappedRecords(cons) ==
  LET ok == SelectSeq(cons, LAMBDA e : e.mapped /\ e.code = OK)
  IN [i \in 1..Len(ok) |-> ok[i].rec]

AllRowsOK(cons) == \A i \in 1..Len(cons) : cons[i].code = OK

\* A read_<table>() call is in its row loop or has ended, by a return or by
\* an exception.
InTableRead == call = "read_table" /\ pc \in {"rows", "returned", "thrown"}

-----------------------------------------------------------------------------
(* C1: a table read maps the rows in file order and stops at the first row *)
(* whose mapper fails: it returns that mapper's Result, the table holds    *)
(* the earlier content followed by the records of the rows mapped          *)
(* successfully before that row, no row after it is mapped, and OK is      *)
(* returned only at the end of the file with every mapped row successful.  *)
C1_StopsAtFirstFailure ==
  InTableRead =>
    /\ feed[cur] = EarlierContent(cur) \o MappedRecords(consumed)
    /\ \A t \in ReadTables \ {cur} : feed[t] = EarlierContent(t)
    /\ \A i \in 1..(Len(consumed) - 1) : consumed[i].code = OK
    /\ pc = "rows" => AllRowsOK(consumed)
    /\ (pc = "returned" /\ ~AllRowsOK(consumed))
         => result = consumed[Len(consumed)].code
    /\ (pc = "returned" /\ result = OK)
         => (Len(consumed) = dir.rows[cur] /\ AllRowsOK(consumed))

\* read_stops on a file of three rows, after one add_stop(stop): the first
\* row is mapped, the second fails, the third is never read.
C1_Witness ==
  /\ call = "read_table" /\ pc = "returned" /\ cur = "stops"
  /\ adds = <<"stops">>
  /\ dir.rows[cur] = 3
  /\ Len(consumed) = 2
  /\ consumed[1].mapped /\ consumed[1].code = OK
  /\ consumed[2].mapped /\ consumed[2].code = ERROR_INVALID_FIELD_FORMAT
  /\ result = ERROR_INVALID_FIELD_FORMAT
  /\ feed[cur] = <<Stop, consumed[1].rec>>

-----------------------------------------------------------------------------
(* C2: read_feed reads the tables in the order agency, stops, routes,      *)
(* trips, stop_times, calendar, calendar_dates, shapes, transfers,         *)
(* frequencies; it returns the first non-OK result of one of the first     *)
(* five, and of the others the first non-OK result other than              *)
(* ERROR_FILE_ABSENT, which leaves the table empty; tables read before     *)
(* keep their records, tables after are not read; without the directory    *)
(* the result is ERROR_INVALID_GTFS_PATH and no table is read.             *)
C2_Order ==
  <<"agency", "stops", "routes", "trips", "stop_times", "calendar",
    "calendar_dates", "shapes", "transfers", "frequencies">>

C2_Fatal(e) ==
  /\ e.code # OK
  /\ \/ e.table \in {"agency", "stops", "routes", "trips", "stop_times"}
     \/ e.code # ERROR_FILE_ABSENT

C2_ReadFeedOrder ==
  call = "read_feed" =>
    /\ Len(read_log) <= Len(C2_Order)
    /\ \A i \in 1..Len(read_log) :
         /\ read_log[i].table = C2_Order[i]
         /\ i < Len(read_log) => ~C2_Fatal(read_log[i])
         /\ feed[read_log[i].table] = read_log[i].records
         /\ read_log[i].code = ERROR_FILE_ABSENT
              => feed[read_log[i].table] = <<>>
    /\ \A i \in (Len(read_log) + 2)..Len(C2_Order) : feed[C2_Order[i]] = <<>>
    /\ pc = "returned" =>
         /\ \A i \in (Len(read_log) + 1)..Len(C2_Order) :
              feed[C2_Order[i]] = <<>>
         /\ IF ~dir.exists
              THEN result = ERROR_INVALID_GTFS_PATH /\ read_log = <<>>
              ELSE /\ read_log # <<>>
                   /\ IF C2_Fatal(read_log[Len(read_log)])
                        THEN result = read_log[Len(read_log)].code
                        ELSE Len(read_log) = Len(C2_Order) /\ result = OK

\* calendar.txt is absent and tolerated, then a row of calendar_dates.txt
\* fails: read_feed returns that failure, agency keeps its record and
\* shapes is never read.
C2_Witness ==
  /\ call = "read_feed" /\ pc = "returned"
  /\ Len(read_log) = 7
  /\ read_log[6].code = ERROR_FILE_ABSENT
  /\ read_log[7].code = ERROR_INVALID_FIELD_FORMAT
  /\ result = ERROR_INVALID_FIELD_FORMAT
  /\ Len(feed["agency"]) = 1
  /\ feed["shapes"] = <<>>

-----------------------------------------------------------------------------
(* C3: after read_feed returns OK on a directory that holds every table    *)
(* file, every table of the Feed, fare_rules, levels, pathways,            *)
(* translations, attributions and feed_info included, holds one record per *)
(* data row of its file.                                                   *)
C3_AllTablesPopulated ==
  (/\ call = "read_feed" /\ pc = "returned" /\ result = OK
   /\ \A t \in AllTables : dir.rows[t] >= 0)
    => \A t \in AllTables : Len(feed[t]) = dir.rows[t]

-----------------------------------------------------------------------------
(* C4: a data row whose field count differs from the header's gives an     *)
(* empty mapping: none of its values reaches a mapper, and the table read  *)
(* fails with ERROR_REQUIRED_FIELD_ABSENT.                                 *)
C4_MismatchGivesEmptyMapping ==
  call = "read_table" =>
    \A i \in 1..Len(consumed) :
      consumed[i].mismatch =>
        /\ DOMAIN consumed[i].row = {}
        /\ ~consumed[i].mapped
        /\ consumed[i].code = ERROR_REQUIRED_FIELD_ABSENT

-----------------------------------------------------------------------------
(* C5: a row mapping that lacks the key of a required field, whether an    *)
(* identifier, a text, an enum or an integer field, makes the mapper       *)
(* return ERROR_REQUIRED_FIELD_ABSENT; stated for rows whose cells are all *)
(* well-formed, so that nothing else can fail.                             *)
C5_MissingRequiredKey ==
  call = "read_table" =>
    \A i \in 1..Len(consumed) :
      (/\ consumed[i].mapped
       /\ ~consumed[i].mismatch
       /\ consumed[i].line = GoodLine(cur, field_sequence)
       /\ \E k \in RequiredKeys(cur) : Str(k) \notin DOMAIN consumed[i].row)
        => consumed[i].code = ERROR_REQUIRED_FIELD_ABSENT

-----------------------------------------------------------------------------
(* C6: no exception leaves a table read: whatever the row holds, the       *)
(* mapper returns a Result.                                                *)
C6_NoUncaughtException == pc # "thrown"

-----------------------------------------------------------------------------
(* C12, as stated: a routes row whose route_short_name and               *)
(* route_long_name are both empty or absent yields                         *)
(* ERROR_REQUIRED_FIELD_ABSENT and appends no Route, whatever its other    *)
(* fields; a row with a present, non-empty route_id, a well-formed         *)
(* route_type and at least one non-empty name yields OK and appends        *)
(* exactly one Route.                                                      *)
C12_IsInt(c) ==
  /\ c # <<>>
  /\ Len(c) <= 9
  /\ \A i \in 1..Len(c) : c[i] \in Digits \/ (i = 1 /\ c[i] = "-" /\ Len(c) > 1)

C12_Cell(key) == get_value_or_default(record, Str(key))

C12_NoName ==
  C12_Cell("route_short_name") = <<>> /\ C12_Cell("route_long_name") = <<>>

C12_Mapped == call = "add_row" /\ cur = "routes" /\ pc # "row"

C12_Rejected ==
  /\ pc = "returned"
  /\ result = ERROR_REQUIRED_FIELD_ABSENT
  /\ feed["routes"] = <<>>

C12_Accepted ==
  /\ pc = "returned"
  /\ result = OK
  /\ Len(feed["routes"]) = 1
  /\ feed["routes"][1].route_short_name = C12_Cell("route_short_name")
  /\ feed["routes"][1].route_long_name = C12_Cell("route_long_name")

C12_NamesRuleAnyRow ==
  C12_Mapped =>
    /\ C12_NoName => C12_Rejected
    /\ ( /\ C12_Cell("route_id") # <<>>
         /\ C12_IsInt(C12_Cell("route_type"))
         /\ ~C12_NoName ) => C12_Accepted

(* C12, amended: for a routes row whose route_id is present, whose         *)
(* route_type is a well-formed integer and whose route_sort_order is       *)
(* absent, empty or a well-formed integer, the mapper yields               *)
(* ERROR_REQUIRED_FIELD_ABSENT and appends no Route when both names are    *)
(* empty or absent, and yields OK and appends exactly one Route with the   *)
(* row's names when at least one name is non-empty.  A row whose           *)
(* route_type or route_sort_order is malformed is rejected before the      *)
(* names are examined and appends no Route.                                *)
C12_FieldsValid ==
  /\ Str("route_id") \in DOMAIN record
  /\ C12_IsInt(C12_Cell("route_type"))
  /\ C12_Cell("route_sort_order") = <<>>
       \/ C12_IsInt(C12_Cell("route_sort_order"))

C12_NamesRule ==
  C12_Mapped =>
    /\ (C12_FieldsValid /\ C12_NoName) => C12_Rejected
    /\ (C12_FieldsValid /\ ~C12_NoName) => C12_Accepted
    /\ ~C12_FieldsValid =>
         /\ pc = "returned"
         /\ result \in {ERROR_REQUIRED_FIELD_ABSENT, ERROR_INVALID_FIELD_FORMAT}
         /\ feed["routes"] = <<>>

\* A row with a valid route_id and route_type and names absent has been
\* rejected.
C12_Witness ==
  /\ C12_Mapped
  /\ C12_FieldsValid
  /\ DOMAIN record = {Str("route_id"), Str("route_type")}
  /\ C12_Rejected

(* Reference notions for Time and Date texts *)

IsDigits(str) == str # <<>> /\ \A i \in 1..Len(str) : str[i] \in Digits

\* The number a run of decimal digits denotes.
RECURSIVE Dec(_)
Dec(str) ==
  IF str = <<>> THEN 0
  ELSE Dec(SubSeq(str, 1, Len(str) - 1)) * 10 + DigitVal(str[Len(str)])

\* The digit of d < 10, and n < 100 written with two digits.
DigitOf(d) == CHOOSE c \in Digits : DigitVal(c) = d

Pad2(n) == <<DigitOf(n \div 10), DigitOf(n % 10)>>

\* The hours, minutes and seconds parts of a text H:MM:SS or HH:MM:SS.
ClockParts(text) ==
  [h |-> SubSeq(text, 1, Len(text) - 6),
   m |-> SubSeq(text, Len(text) - 4, Len(text) - 3),
   s |-> SubSeq(text, Len(text) - 1, Len(text))]

\* text has the form H:MM:SS or HH:MM:SS with decimal-digit components.
IsClockText(text) ==
  /\ Len(text) \in {7, 8}
  /\ text[Len(text) - 5] = ":"
  /\ text[Len(text) - 2] = ":"
  /\ IsDigits(ClockParts(text).h)
  /\ IsDigits(ClockParts(text).m)
  /\ IsDigits(ClockParts(text).s)

\* A Time constructor has been called with a text, with integers.
TimeOfTextCalled ==
  val_pc \in {"time", "thrown"} /\ args.type = "Time" /\ args.of = "text"

TimeOfIntsCalled ==
  val_pc \in {"time", "thrown"} /\ args.type = "Time" /\ args.of = "ints"

(* C13: for every text H:MM:SS or HH:MM:SS with decimal-digit components   *)
(* and minute, second <= 60, Time(text) succeeds, is_provided() is true,   *)
(* get_hh_mm_ss() returns the parsed components and get_total_seconds()    *)
(* is hours*3600 + minutes*60 + seconds; every provided Time, built from   *)
(* text or integers, keeps total seconds equal to that sum of its          *)
(* components, also after limit_hours_to_24max.                            *)
C13_TextParsed ==
  /\ ( /\ TimeOfTextCalled
       /\ IsClockText(args.text)
       /\ Dec(ClockParts(args.text).m) <= 60
       /\ Dec(ClockParts(args.text).s) <= 60 ) =>
       LET h == Dec(ClockParts(args.text).h)
           m == Dec(ClockParts(args.text).m)
           sec == Dec(ClockParts(args.text).s)
       IN /\ thrown = "none"
          /\ val_pc = "time"
          /\ time.time_is_provided
          /\ limit_returned = <<>> =>
               /\ <<time.hh, time.mm, time.ss>> = <<h, m, sec>>
               /\ time.total_seconds = h * 3600 + m * 60 + sec
  /\ (val_pc = "time" /\ time.time_is_provided) =>
       time.total_seconds = time.hh * 3600 + time.mm * 60 + time.ss

\* "27:05:59" has been parsed and its hours limited once.
C13_Witness ==
  /\ TimeOfTextCalled
  /\ args.text = <<"2", "7", ":", "0", "5", ":", "5", "9">>
  /\ time.time_is_provided
  /\ Len(limit_returned) = 1
  /\ time_before.total_seconds = 27 * 3600 + 5 * 60 + 59
  /\ time.total_seconds = 3 * 3600 + 5 * 60 + 59

(* C14: Time(raw) with non-empty raw throws InvalidFieldFormat when the     *)
(* length of raw is neither 7 nor 8, when neither the character at         *)
(* position length-3 nor the one at position length-6 (counted from 0) is  *)
(* ':', or when the parsed minute or second is greater than 60; Time("")   *)
(* does not throw and gives a Time that is not provided.                   *)
C14_TextRejected ==
  TimeOfTextCalled =>
    LET raw == args.text
        len == Len(raw)
        parts == ClockParts(raw)
    IN /\ ( /\ raw # <<>>
            /\ \/ len \notin {7, 8}
               \/ raw[len - 2] # ":" /\ raw[len - 5] # ":"
               \/ /\ IsDigits(parts.h) /\ IsDigits(parts.m) /\ IsDigits(parts.s)
                  /\ Dec(parts.m) > 60 \/ Dec(parts.s) > 60 ) =>
            (val_pc = "thrown" /\ thrown = "InvalidFieldFormat")
       /\ raw = <<>> =>
            /\ val_pc = "time"
            /\ thrown = "none"
            /\ ~time.time_is_provided

\* "07:61:00" has been rejected for its minutes.
C14_Witness ==
  /\ TimeOfTextCalled
  /\ args.text = <<"0", "7", ":", "6", "1", ":", "0", "0">>
  /\ val_pc = "thrown"
  /\ thrown = "InvalidFieldFormat"

\* The components of the Time, each written with two digits.
PaddedTime ==
  Pad2(time.hh) \o <<":">> \o Pad2(time.mm) \o <<":">> \o Pad2(time.ss)

\* A Time has been parsed from a text H:MM:SS or HH:MM:SS.
ClockTextParsed ==
  TimeOfTextCalled /\ val_pc = "time" /\ IsClockText(args.text)

(* C15, as stated: for every Time parsed from a text H:MM:SS or HH:MM:SS,  *)
(* get_raw_time() is the rendering of the parsed hours, minutes and        *)
(* seconds with each component zero-padded to two digits.                  *)
C15_RoundTrip == ClockTextParsed => time.raw_time = PaddedTime

(* C15, amended: for every Time parsed from a text H:MM:SS or HH:MM:SS,    *)
(* get_raw_time() returns the text it was parsed from until                *)
(* limit_hours_to_24max returns true; it is the rendering of the           *)
(* components zero-padded to two digits exactly when the hours were        *)
(* written with two digits, also after limit_hours_to_24max, and for a     *)
(* text H:MM:SS the hour stays written with one digit.                     *)
C15_RawTimeIsText ==
  ClockTextParsed =>
    /\ (\A i \in 1..Len(limit_returned) : ~limit_returned[i]) =>
         time.raw_time = args.text
    /\ time.raw_time = PaddedTime <=> Len(args.text) = 8
    /\ Len(args.text) = 7 =>
         time.raw_time = <<DigitOf(time.hh)>> \o Tail(Tail(PaddedTime))

\* "7:05:59" has been parsed and is returned as it was written.
C15_Witness ==
  /\ ClockTextParsed
  /\ args.text = <<"7", ":", "0", "5", ":", "5", "9">>
  /\ time.raw_time = <<"7", ":", "0", "5", ":", "5", "9">>
  /\ PaddedTime = <<"0", "7", ":", "0", "5", ":", "5", "9">>

\* n in decimal, without leading zeros.
RECURSIVE DecText(_)
DecText(n) ==
  IF n < 10 THEN <<DigitOf(n)>>
  ELSE Append(DecText(n \div 10), DigitOf(n % 10))

(* C16: for every Time built from integers (hours, minutes, seconds) with  *)
(* minutes, seconds <= 60, is_provided() is true and get_raw_time() is the *)
(* hours in decimal, zero-padded to two digits when below 10 and otherwise *)
(* without any extra leading zero, followed by ':MM:SS' with two-digit     *)
(* minutes and seconds; limit_hours_to_24max leaves the same canonical     *)
(* form of the new components.                                             *)
C16_CanonicalText ==
  (TimeOfIntsCalled /\ args.ints[2] <= 60 /\ args.ints[3] <= 60) =>
    /\ val_pc = "time"
    /\ time.time_is_provided
    /\ time.raw_time =
         (IF time.hh < 10 THEN Pad2(time.hh) ELSE DecText(time.hh))
           \o <<":">> \o Pad2(time.mm) \o <<":">> \o Pad2(time.ss)

(* C17: every Time for which is_provided() is true has minutes in [0,60)  *)
(* and seconds in [0,60), whether it was built from text or from integers, *)
(* and after any number of limit_hours_to_24max calls.                     *)
C17_MinutesSecondsBelow60 ==
  (val_pc = "time" /\ time.time_is_provided) =>
    /\ 0 <= time.mm /\ time.mm < 60
    /\ 0 <= time.ss /\ time.ss < 60

(* C18: limit_hours_to_24max returns true exactly when the hours of the   *)
(* Time were >= 24; afterwards the hours are the old hours modulo 24,      *)
(* minutes and seconds are unchanged, and total seconds and canonical text *)
(* are recomputed from the new components ("24:05:00" becomes "00:05:00"). *)
(* With hours < 24 it returns false and changes nothing, so a second call  *)
(* always returns false and leaves the Time unchanged.                     *)
C18_LimitHours ==
  (val_pc = "time" /\ limit_returned # <<>>) =>
    LET ret == limit_returned[Len(limit_returned)]
    IN /\ ret <=> time_before.hh >= 24
       /\ ret =>
            /\ time.hh = time_before.hh % 24
            /\ time.mm = time_before.mm
            /\ time.ss = time_before.ss
            /\ time.time_is_provided = time_before.time_is_provided
            /\ time.total_seconds = time.hh * 3600 + time.mm * 60 + time.ss
            /\ time.raw_time = PaddedTime
       /\ ~ret => time = time_before
       /\ Len(limit_returned) = 2 => (~ret /\ time = time_before)

\* "24:05:00" has become "00:05:00" in a first call that returned true, and
\* a second call has returned false.
C18_Witness ==
  /\ TimeOfTextCalled
  /\ args.text = <<"2", "4", ":", "0", "5", ":", "0", "0">>
  /\ limit_returned = <<TRUE, FALSE>>
  /\ time.raw_time = <<"0", "0", ":", "0", "5", ":", "0", "0">>
  /\ time.total_seconds = 300

(* Reference notions for dates *)

LeapYear(y) == y % 4 = 0 /\ (y % 100 # 0 \/ y % 400 = 0)

DaysOfMonth(y, m) ==
  IF m = 2 THEN (IF LeapYear(y) THEN 29 ELSE 28)
  ELSE IF m \in {4, 6, 9, 11} THEN 30
  ELSE 31

ValidDate(y, m, d) ==
  /\ 1000 <= y /\ y <= 9999
  /\ 1 <= m /\ m <= 12
  /\ 1 <= d /\ d <= DaysOfMonth(y, m)

\* A Date constructor has been called with a text, with integers.
DateOfTextCalled ==
  val_pc \in {"date", "thrown"} /\ args.type = "Date" /\ args.of = "text"

DateOfIntsCalled ==
  val_pc \in {"date", "thrown"} /\ args.type = "Date" /\ args.of = "ints"

\* The constructor has returned a provided Date of these components.
DateIs(y, m, d) ==
  /\ val_pc = "date"
  /\ thrown = "none"
  /\ date.date_is_provided
  /\ <<date.yyyy, date.mm, date.dd>> = <<y, m, d>>

DateRejected == val_pc = "thrown" /\ thrown = "InvalidFieldFormat"

(* C19: Date(year, month, day), and Date(text) for an 8-digit text         *)
(* YYYYMMDD, succeed exactly when year is in [1000,9999], month in [1,12]  *)
(* and day in [1, days of that month], February having 29 days exactly in  *)
(* years divisible by 4 and not by 100 unless divisible by 400; in every   *)
(* other case, and for a non-empty text whose length is not 8, they throw  *)
(* InvalidFieldFormat.  Date("") does not throw and is not provided.       *)
C19_DateValidity ==
  /\ DateOfIntsCalled =>
       LET y == args.ints[1]
           m == args.ints[2]
           d == args.ints[3]
       IN IF ValidDate(y, m, d) THEN DateIs(y, m, d) ELSE DateRejected
  /\ (DateOfTextCalled /\ Len(args.text) = 8 /\ IsDigits(args.text)) =>
       LET y == Dec(SubSeq(args.text, 1, 4))
           m == Dec(SubSeq(args.text, 5, 6))
           d == Dec(SubSeq(args.text, 7, 8))
       IN IF ValidDate(y, m, d) THEN DateIs(y, m, d) ELSE DateRejected
  /\ (DateOfTextCalled /\ args.text # <<>> /\ Len(args.text) # 8) =>
       DateRejected
  /\ (DateOfTextCalled /\ args.text = <<>>) =>
       /\ val_pc = "date"
       /\ thrown = "none"
       /\ ~date.date_is_provided

\* Date(1900, 2, 29) has been rejected: 1900 is not a leap year.
C19_Witness ==
  /\ DateOfIntsCalled
  /\ args.ints = <<1900, 2, 29>>
  /\ DateRejected

(* C20: for every valid (year, month, day), Date(year, month, day)         *)
(* .get_raw_date() is the 8-character text YYYYMMDD with month and day     *)
(* zero-padded to two digits, and parsing that text back gives an equal    *)
(* Date with the same components and is_provided() true.                   *)
C20_DateRoundTrip ==
  (DateOfIntsCalled /\ ValidDate(args.ints[1], args.ints[2], args.ints[3])) =>
    /\ val_pc = "date"
    /\ Len(date.raw_date) = 8
    /\ date.raw_date =
         DecText(args.ints[1]) \o Pad2(args.ints[2]) \o Pad2(args.ints[3])
    /\ date_again # <<>> =>
         /\ date_again.exc = "none"
         /\ DateEqual(date_again.date, date)
         /\ <<date_again.date.yyyy, date_again.date.mm, date_again.date.dd>>
              = args.ints
         /\ date_again.date.date_is_provided

\* Date(2020, 2, 1) has been written as "20200201" and parsed back.
C20_Witness ==
  /\ DateOfIntsCalled
  /\ args.ints = <<2020, 2, 1>>
  /\ date.raw_date = <<"2", "0", "2", "0", "0", "2", "0", "1">>
  /\ date_again # <<>>
  /\ date_again.date.date_is_provided

(* Reference notions for the get_ calls *)

\* The last call was this get_ call.
Asked(get) == query # <<>> /\ query.get = get

\* The positions of t's records whose key fields hold the ids asked for.
Matches(t, keys) ==
  {i \in 1..Len(feed[t]) :
     \A k \in 1..Len(keys) : feed[t][i][keys[k]] = query.ids[k]}

\* The answer is the earliest of those records, or nothing if there is none.
FirstMatch(t, keys) ==
  IF Matches(t, keys) = {} THEN answer = <<>>
  ELSE answer = <<feed[t][CHOOSE i \in Matches(t, keys) :
                            \A j \in Matches(t, keys) : i <= j]>>

(* C21: get_agency(id) returns the sole stored agency when id is empty and *)
(* exactly one agency is stored, whatever that agency's own agency_id is;  *)
(* in every other case it returns the first stored agency whose agency_id  *)
(* equals id, and nothing when no stored agency has that id (in            *)
(* particular nothing on an empty store).                                  *)
C21_GetAgency ==
  Asked("get_agency") =>
    IF query.ids[1] = <<>> /\ Len(feed["agency"]) = 1
      THEN answer = <<feed["agency"][1]>>
      ELSE FirstMatch("agency", <<"agency_id">>)

\* get_agency("") has returned the only agency, whose id is "a".
C21_Witness ==
  /\ Asked("get_agency")
  /\ query.ids[1] = <<>>
  /\ Len(feed["agency"]) = 1
  /\ feed["agency"][1].agency_id = <<"a">>
  /\ answer = <<feed["agency"][1]>>

(* C22: for every point lookup (get_stop, get_route, get_trip,            *)
(* get_calendar(id), get_fare_rule, get_level, get_pathway(id),            *)
(* get_transfer(from, to), get_pathway(from, to)) the result is the        *)
(* earliest-inserted record whose key fields all equal the arguments, and  *)
(* nothing exactly when no stored record matches; records with duplicate   *)
(* keys are accepted and a later duplicate never changes the result.       *)
C22_PointLookup ==
  /\ Asked("get_stop") => FirstMatch("stops", <<"stop_id">>)
  /\ Asked("get_route") => FirstMatch("routes", <<"route_id">>)
  /\ Asked("get_trip") => FirstMatch("trips", <<"trip_id">>)
  /\ Asked("get_calendar") => FirstMatch("calendar", <<"service_id">>)
  /\ Asked("get_fare_rule") => FirstMatch("fare_rules", <<"fare_id">>)
  /\ Asked("get_level") => FirstMatch("levels", <<"level_id">>)
  /\ Asked("get_pathway") => FirstMatch("pathways", <<"pathway_d">>)
  /\ Asked("get_transfer") =>
       FirstMatch("transfers", <<"from_stop_id", "to_stop_id">>)
  /\ Asked("get_pathway(from, to)") =>
       FirstMatch("pathways", <<"from_stop_id", "to_stop_id">>)

\* get_transfer("a", "b") has returned the first of two transfers from "a"
\* to "b", stored after a transfer from "b" to "a".
C22_Witness ==
  /\ Asked("get_transfer")
  /\ query.ids = <<<<"a">>, <<"b">>>>
  /\ Len(feed["transfers"]) = 3
  /\ feed["transfers"][1].from_stop_id = <<"b">>
  /\ feed["transfers"][2].from_stop_id = <<"a">>
  /\ feed["transfers"][2].to_stop_id = <<"b">>
  /\ feed["transfers"][3].from_stop_id = <<"a">>
  /\ feed["transfers"][3].to_stop_id = <<"b">>
  /\ feed["transfers"][3] # feed["transfers"][2]
  /\ answer = <<feed["transfers"][2]>>

\* The stored records of t whose field key holds the id asked for, in
\* table order.
Selected(t, key) == SelectSeq(feed[t], LAMBDA e : e[key] = query.ids[1])

\* How often record r occurs in seq.
Count(seq, r) == Cardinality({i \in 1..Len(seq) : seq[i] = r})

\* The answer holds exactly the selected records, each as often as stored.
SameRecords(t, key) ==
  /\ Len(answer) = Len(Selected(t, key))
  /\ \A i \in 1..Len(answer) :
       Count(answer, answer[i]) = Count(Selected(t, key), answer[i])

\* The value the sort of a collection orders by: the date as a number
\* that grows with (year, month, day), or the size_t wrap * 2^64 + off as
\* the pair <<wrap, off>>.
OrderKey(order, e) ==
  IF order = "date"
    THEN <<0, e.date.yyyy * 10000 + e.date.mm * 100 + e.date.dd>>
    ELSE <<e[order].wrap, e[order].off>>

\* The ordering value of e1 is at most that of e2.
InOrder(order, e1, e2) ==
  LET k1 == OrderKey(order, e1)
      k2 == OrderKey(order, e2)
  IN k1[1] < k2[1] \/ (k1[1] = k2[1] /\ k1[2] <= k2[2])

\* The answer of a get_ call on t by key: the selected records, in table
\* order, or sorted by order when sort was asked for.
CollectionAnswer(t, key, order) ==
  /\ SameRecords(t, key)
  /\ ~query.sort => answer = Selected(t, key)
  /\ query.sort =>
       \A i \in 1..(Len(answer) - 1) :
         InOrder(order, answer[i], answer[i + 1])

(* C23: get_stop_times_for_trip(id, sort) returns exactly the stored       *)
(* stop-times whose trip_id equals id, each as many times as it is stored  *)
(* and no other record: in table order when sort is false, and in          *)
(* non-decreasing stop_sequence order when sort is true.  get_shape(id,    *)
(* sort) does the same by shape_id and shape_pt_sequence, and              *)
(* get_calendar_dates(id, sort) by service_id and chronological (year,     *)
(* month, day) order of the date.                                          *)
C23_Collections ==
  /\ Asked("get_stop_times_for_trip") =>
       CollectionAnswer("stop_times", "trip_id", "stop_sequence")
  /\ Asked("get_shape") =>
       CollectionAnswer("shapes", "shape_id", "shape_pt_sequence")
  /\ Asked("get_calendar_dates") =>
       CollectionAnswer("calendar_dates", "service_id", "date")

\* Records of the sorted answer with equal ordering value are in the order
\* they have in the table.
StableAnswer(t, key, order) ==
  query.sort =>
    \A i \in 1..Len(answer) :
      SelectSeq(answer,
                LAMBDA e : OrderKey(order, e) = OrderKey(order, answer[i]))
        = SelectSeq(Selected(t, key),
                    LAMBDA e : OrderKey(order, e) = OrderKey(order, answer[i]))

(* C24: the sort applied by get_stop_times_for_trip, get_shape and         *)
(* get_calendar_dates is stable: in a sorted result, records with equal    *)
(* ordering key (stop_sequence, shape_pt_sequence or date) appear in the   *)
(* same relative order as in the stored table.                             *)
C24_StableSort ==
  /\ Asked("get_stop_times_for_trip") =>
       StableAnswer("stop_times", "trip_id", "stop_sequence")
  /\ Asked("get_shape") =>
       StableAnswer("shapes", "shape_id", "shape_pt_sequence")
  /\ Asked("get_calendar_dates") =>
       StableAnswer("calendar_dates", "service_id", "date")

IsPrefix(s, t) == Len(s) <= Len(t) /\ SubSeq(t, 1, Len(s)) = s

(* C25: every table is append-only: whatever add_, read_ or get_ call is   *)
(* made, the content a table had before the call is a prefix of its        *)
(* content after it (a second read of a table appends to what the first    *)
(* read left).  A get_ call leaves every table as it was, and a query      *)
(* asked again of an unmodified Feed gets the answer it got before.        *)
C25_AppendOnly ==
  [][/\ \A t \in AllTables : IsPrefix(feed[t], feed'[t])
     /\ query' # <<>> => feed' = feed
     /\ (query # <<>> /\ query' = query /\ feed' = feed) => answer' = answer
    ]_vars

\* An entity added by add_<entity>, then the same one-row file read
\* twice, then a get_ call that found something.
C25_Witness ==
  /\ Len(feed[cur]) = 3
  /\ feed[cur][1] \in Stored(cur)
  /\ feed[cur][2] \notin Stored(cur)
  /\ feed[cur][3] = feed[cur][2]
  /\ query # <<>>
  /\ answer # <<>>

\* A row mapper has been applied to the row in record.
RowMapped == call = "add_row" /\ pc # "row"

(* C26: every row mapper either returns OK after appending exactly one     *)
(* record at the end of its own table, or returns a failure and leaves     *)
(* every table unchanged; it never modifies another table.                 *)
C26_RowMapperFrame ==
  RowMapped =>
    /\ pc = "returned"
    /\ \/ result = OK /\ Len(feed[cur]) = 1
       \/ result # OK /\ feed[cur] = <<>>
    /\ \A t \in AllTables \ {cur} : feed[t] = <<>>

\* The numeric fields C27 names and the table of each.
NonNegativeKeys ==
  {<<"stop_times", "stop_sequence">>, <<"stop_times", "shape_dist_traveled">>,
   <<"shapes", "shape_pt_sequence">>, <<"shapes", "shape_dist_traveled">>,
   <<"routes", "route_sort_order">>, <<"transfers", "min_transfer_time">>,
   <<"frequencies", "headway_secs">>}

IsNegative(c) == Len(c) > 1 /\ c[1] = "-" /\ c[2] \in Digits

\* The row in record holds a negative value in one of those fields.
NegativeRow ==
  \E k \in NonNegativeKeys :
    k[1] = cur /\ IsNegative(get_value_or_default(record, Str(k[2])))

(* C27: a row whose stop_sequence, shape_pt_sequence, route_sort_order,    *)
(* min_transfer_time, headway_secs or shape_dist_traveled is negative is   *)
(* rejected with ERROR_INVALID_FIELD_FORMAT and appends no record.         *)
C27_NegativeRejected ==
  (RowMapped /\ NegativeRow) =>
    /\ pc = "returned"
    /\ result = ERROR_INVALID_FIELD_FORMAT
    /\ feed[cur] = <<>>

\* The row in record is a shapes row whose latitude or longitude is a
\* number outside the WGS84 range.
OutOfRangeShape ==
  /\ cur = "shapes"
  /\ \/ get_value_or_default(record, Str("shape_pt_lat")) = <<"9", "1">>
     \/ get_value_or_default(record, Str("shape_pt_lon")) = <<"1", "8", "1">>

(* C28: a shapes row whose shape_pt_lat is outside [-90, 90] or whose      *)
(* shape_pt_lon is outside [-180, 180] is rejected with                    *)
(* ERROR_INVALID_FIELD_FORMAT and appends no ShapePoint.                   *)
C28_CoordinatesRejected ==
  (RowMapped /\ OutOfRangeShape) =>
    /\ pc = "returned"
    /\ result = ERROR_INVALID_FIELD_FORMAT
    /\ feed["shapes"] = <<>>

(* C29: read_row never reads a field value at an index outside the         *)
(* tokenized row.                                                          *)
C29_NoReadBeyondRow ==
  \A i \in 1..Len(consumed) : ~consumed[i].oob

(* C30: in the older header a data row for which read_row returns         *)
(* ERROR_INVALID_FIELD_FORMAT (its field count differs from the header's)  *)
(* causes no record to be appended: the mapper is not called on a mapping  *)
(* that still holds the values of a row read before.                       *)
C30_RejectedRowNotMapped ==
  call = "older read_table" =>
    \A i \in 1..Len(consumed) :
      consumed[i].mismatch =>
        ~consumed[i].mapped /\ consumed[i].rec = <<>>

(* C11: read_header returns ERROR_FILE_ABSENT when the table's file cannot *)
(* be opened and ERROR_INVALID_FIELD_FORMAT when the file has no first     *)
(* line or an empty one; the table read returns that result, reads no data *)
(* row and leaves the table unchanged.                                     *)
C11_HeaderFailure ==
  (call = "read_table" /\ pc \notin {"idle", "open"}) =>
    LET is_open == dir.exists /\ dir.rows[cur] >= 0
        failed(res) ==
          /\ pc = "returned" /\ result = res
          /\ consumed = <<>>
          /\ feed[cur] = EarlierContent(cur)
    IN /\ ~is_open => failed("ERROR_FILE_ABSENT")
       /\ (is_open /\ header_line = <<>>) => failed("ERROR_INVALID_FIELD_FORMAT")

\* read_agencies on a file of three data rows whose first line is empty,
\* after one add_agency(agency).
C11_Witness ==
  /\ call = "read_table" /\ pc = "returned" /\ cur = "agency"
  /\ dir.rows[cur] = 3
  /\ header_line = <<>>
  /\ result = "ERROR_INVALID_FIELD_FORMAT"
  /\ consumed = <<>>
  /\ feed[cur] = <<Agency>>

-----------------------------------------------------------------------------
(* Reference notions for the tokenizer claims, defined on the input line   *)
(* alone.                                                                  *)

StartsWithBOM(rec) ==
  Len(rec) > 2 /\ rec[1] = BOM1 /\ rec[2] = BOM2 /\ rec[3] = BOM3

\* The text split_record tokenizes: the line, less the BOM of a header.
Body(rec, header) ==
  IF header /\ StartsWithBOM(rec) THEN SubSeq(rec, 4, Len(rec)) ELSE rec

\* InQuotes(rec)[i]: character i lies inside quotes (an odd number of
\* double quotes before it).
RECURSIVE QuotesBefore(_, _)
QuotesBefore(rec, i) ==
  IF i <= 1 THEN 0
  ELSE QuotesBefore(rec, i - 1) + (IF rec[i - 1] = QUOTE THEN 1 ELSE 0)

InsideQuotes(rec, i) == QuotesBefore(rec, i) % 2 = 1

UnquotedCommas(rec) ==
  {i \in 1..Len(rec) : rec[i] = COMMA /\ ~InsideQuotes(rec, i)}

QuotedCommas(rec) ==
  {i \in 1..Len(rec) : rec[i] = COMMA /\ InsideQuotes(rec, i)}

RECURSIVE CountChar(_, _)
CountChar(str, S) ==
  IF str = <<>> THEN 0
  ELSE (IF Head(str) \in S THEN 1 ELSE 0) + CountChar(Tail(str), S)

RECURSIVE CountCharAll(_, _)
CountCharAll(strs, S) ==
  IF strs = <<>> THEN 0
  ELSE CountChar(Head(strs), S) + CountCharAll(Tail(strs), S)

\* Segment(rec, k): the text of field k, between the (k-1)-th and the k-th
\* unquoted comma.
SegmentStart(rec, k) ==
  IF k = 1 THEN 1
  ELSE 1 + CHOOSE i \in UnquotedCommas(rec) :
             Cardinality({j \in UnquotedCommas(rec) : j <= i}) = k - 1

SegmentEnd(rec, k) ==
  IF k = Cardinality(UnquotedCommas(rec)) + 1 THEN Len(rec)
  ELSE (CHOOSE i \in UnquotedCommas(rec) :
          Cardinality({j \in UnquotedCommas(rec) : j <= i}) = k) - 1

Segment(rec, k) == SubSeq(rec, SegmentStart(rec, k), SegmentEnd(rec, k))

RECURSIVE DropLeadingSpaces(_)
DropLeadingSpaces(str) ==
  IF str # <<>> /\ Head(str) = SP THEN DropLeadingSpaces(Tail(str)) ELSE str

\* The first character of a field's text that is neither a double quote, a
\* CR, a TAB nor a space outside quotes ("none" when there is no such
\* character).
RECURSIVE FirstKept(_, _)
FirstKept(str, inq) ==
  IF str = <<>> THEN "none"
  ELSE IF Head(str) = QUOTE THEN FirstKept(Tail(str), ~inq)
  ELSE IF Head(str) \in delims THEN FirstKept(Tail(str), inq)
  ELSE IF Head(str) = SP /\ ~inq THEN FirstKept(Tail(str), inq)
  ELSE Head(str)

SplitDone == split_pc = "done"

-----------------------------------------------------------------------------
(* C7: split_record returns exactly 1 + N fields, N the number of commas   *)
(* outside quotes; a comma inside quotes stays a character of its field,   *)
(* no double quote appears in a returned field, and the empty line gives   *)
(* one empty field.                                                        *)
C7_FieldCount ==
  SplitDone =>
    LET body == Body(line, is_header) IN
    /\ Len(fields) = 1 + Cardinality(UnquotedCommas(body))
    /\ CountCharAll(fields, {COMMA}) = Cardinality(QuotedCommas(body))
    /\ CountCharAll(fields, {QUOTE}) = 0
    /\ (line = <<>> => fields = << <<>> >>)

\* A line with a quoted comma, an unquoted comma and an unterminated quote.
C7_Witness ==
  /\ SplitDone
  /\ line = <<QUOTE, COMMA, QUOTE, COMMA, QUOTE>>
  /\ fields = << <<COMMA>>, <<>> >>

-----------------------------------------------------------------------------
(* C8: no returned field ends with a space, quoted or not, and a field     *)
(* made only of spaces is returned empty.                                  *)
C8_NoTrailingSpace ==
  SplitDone =>
    LET body == Body(line, is_header) IN
    \A k \in 1..Len(fields) :
      /\ fields[k] # <<>> => fields[k][Len(fields[k])] # SP
      /\ (\A i \in 1..Len(Segment(body, k)) :
            Segment(body, k)[i] \in {SP, QUOTE}) => fields[k] = <<>>

\* The line ",, ," of the unit test yields four empty fields.
C8_Witness ==
  /\ SplitDone
  /\ line = <<COMMA, COMMA, SP, COMMA>>
  /\ fields = << <<>>, <<>>, <<>>, <<>> >>

-----------------------------------------------------------------------------
-----------------------------------------------------------------------------
(* C10: the BOM is dropped only from a header line that starts with it,    *)
(* the fields are then those of the line without the mark; with is_header  *)
(* false the three bytes stay in the first field.                          *)
C10_BomOnlyHeaderStart ==
  SplitDone =>
    /\ (is_header /\ StartsWithBOM(line))
         => fields = split_record(SubSeq(line, 4, Len(line)), FALSE)
    /\ (~is_header /\ StartsWithBOM(line))
         => (Len(fields[1]) >= 3 /\ SubSeq(fields[1], 1, 3) = BOM)
    /\ CountCharAll(fields, {BOM1, BOM2, BOM3})
         = CountChar(line, {BOM1, BOM2, BOM3})
             - (IF is_header /\ StartsWithBOM(line) THEN 3 ELSE 0)

\* A header "<BOM>x,": the mark is gone and two fields are returned.
C10_Witness ==
  /\ SplitDone
  /\ is_header
  /\ line = <<BOM1, BOM2, BOM3, "x", COMMA>>
  /\ fields = << <<"x">>, <<>> >>

====
